---------------------------- MODULE Spec2Model ----------------------------
(***************************************************************************)
(* A model of the proxy engine of claude-code-logger                        *)
(* (src/src/proxy-server.ts, class ProxyServer): plain HTTP forwarding      *)
(* (handleRequest / handleResponse), CONNECT tunnelling (handleConnect)     *)
(* and the hand-over of accumulated bodies to body-processing; and of the   *)
(* body-processing functions themselves: processSseStream, parseSseEvents,  *)
(* getFullBody / formatBody, extractChatMessage and the upstream request    *)
(* options, each also callable on its own over a bounded set of inputs.     *)
(*                                                                          *)
(* Node.js runs every callback to completion on one thread.  Each handler   *)
(* of the source is one action; the only handler that is cut in two is the  *)
(* end-of-body handler when it inspects a body: ReqOnEnd / ProxyResOnEnd put  *)
(* the synchronous logRequestBody / logResponseBody call on the stack       *)
(* (running # Idle) and FinishInspect returns from it and performs the rest *)
(* of the handler.  While running # Idle no other callback can start.       *)
(***************************************************************************)
EXTENDS Integers, Sequences, FiniteSets, TLC

(* ------------------------------ bounds --------------------------------- *)
MaxExchanges == 2
MaxTunnels == 1
MaxChunks == 2

Exchanges == 1..MaxExchanges
Tunnels == 1..MaxTunnels
\* the k-th chunk of a stream carries the payload <<connection, stream, k>>: no
\* handler on the forwarding path reads a chunk's content, and distinct payloads
\* make every drop, duplicate, reordering or cross-over visible
Payload(conn, stream, k) == <<conn, stream, k>>
UpstreamStatus == {200}

(* ------------------------- program constants --------------------------- *)
ProxyErrorStatus == 500
ProxyErrorBody == <<"Proxy Error">>
ConnectionEstablished == <<"HTTP/1.1 200 Connection Established">>
NoData == <<>>
DefaultConnectPort == "443"

VARIABLES
    listening,        \* the http.Server is up (the process is alive)
    logBody,          \* options.logBody
    chatMode,         \* options.chatMode
    running,          \* the body-processing call on the stack, or Idle
    \* ---- one proxied exchange (handleRequest / handleResponse) ----
    req,              \* client IncomingMessage: "none","open","ended","errored"
    reqRead,          \* chunks delivered by req 'data'
    requestBody,      \* the accumulated request buffer
    proxyReq,         \* upstream ClientRequest: "none","open","ended"
    proxyReqDestroyed,\* proxyReq.destroy() was called
    proxyReqWritten,  \* chunks handed to proxyReq.write
    upstream,         \* upstream leg: "none","pending","responding","complete","failed"
    reqErrorQueued,   \* an 'error' event on proxyReq waits for its listener
    resErrorQueued,   \* an 'error' event on proxyRes waits for its listener
    proxyResRead,     \* chunks delivered by proxyRes 'data'
    responseBody,     \* the accumulated response buffer
    resOut,           \* what was written to the client ServerResponse, in order
    reqLogged,        \* bodies handed to logRequestBody
    resLogged,        \* bodies handed to logResponseBody
    upstreamError,    \* history: "none", or when the upstream leg failed:
                      \* "beforeHeaders" / "afterHeaders" were written to the client
    \* ---- one CONNECT tunnel (handleConnect) ----
    tunnel,           \* "none","connecting","established","failed"
    clientSocket,     \* "open","wEnded","rEnded","closed"
    serverSocket,
    clientOut,        \* what was written to clientSocket, in order
    serverOut,        \* what was written to serverSocket, in order
    clientIn,         \* chunks read from clientSocket once piped
    serverIn,         \* chunks read from serverSocket once piped
    head,             \* the first tunnel bytes, delivered with the CONNECT request
    \* ---- identifiers and body-processing ----
    mergeSse,         \* options.mergeSse
    requestId,        \* the requestId constant of each handleRequest call
    connectId,        \* the requestId constant of each handleConnect call
    idUses,           \* history: the identifier each step of an exchange worked with
    contentType,      \* content-type of the upstream response
    sseMessages,      \* this.sseMessages: requestId -> SseMessage
    display,          \* what body-processing handed to the console, per exchange
    lastFeed,         \* the last direct call of processSseStream and its outcome
    lastCodec,        \* the last direct call of formatBody / getFullBody
    verbose,          \* options.verbose
    lastCall          \* the last direct call of another function: its name,
                      \* its arguments and what it returned or printed

exVars == <<req, reqRead, requestBody, proxyReq, proxyReqDestroyed, proxyReqWritten,
            upstream, reqErrorQueued, resErrorQueued, proxyResRead, responseBody,
            resOut, reqLogged, resLogged, upstreamError>>
tunVars == <<tunnel, clientSocket, serverSocket, clientOut, serverOut,
             clientIn, serverIn, head>>
optVars == <<logBody, chatMode, mergeSse, verbose>>
logVars == <<requestId, connectId, idUses, contentType, sseMessages, display,
             lastFeed, lastCodec, lastCall>>
vars == <<listening, optVars, running, exVars, tunVars, logVars>>

Idle == [ex |-> 0, dir |-> "none"]

(* --------------------- the client ServerResponse ----------------------- *)
HeadItem(status) == [kind |-> "head", status |-> status, data |-> NoData]
ChunkItem(c) == [kind |-> "chunk", status |-> 0, data |-> c]
EndItem(body) == [kind |-> "end", status |-> 0, data |-> body]

\* res.headersSent
HeadersSent(out) == \E i \in 1..Len(out) : out[i].kind = "head"
\* res.writableEnded
WritableEnded(out) == \E i \in 1..Len(out) : out[i].kind = "end"

\* res.writeHead(status, headers); throws ERR_HTTP_HEADERS_SENT when sent already
ResWriteHead(out, status) == Append(out, HeadItem(status))
\* a write that jumps the queue
ResWrite_Front(out, c) == <<ChunkItem(c)>> \o out

\* res.write(chunk); emits an unhandled 'error' (write after end) once ended
ResWrite(out, c) == Append(out, ChunkItem(c))
\* res.end(body); a second end() does nothing
ResEnd(out, body) == IF WritableEnded(out) THEN out ELSE Append(out, EndItem(body))

\* the chunks of res.write, in the order written
RECURSIVE ChunksOf(_)
ChunksOf(out) ==
    IF out = <<>> THEN <<>>
    ELSE IF out[1].kind = "chunk" THEN <<out[1].data>> \o ChunksOf(Tail(out))
         ELSE ChunksOf(Tail(out))

(* ------------------------------ options -------------------------------- *)
\* this.options.logBody || this.options.chatMode
Inspect == logBody \/ chatMode

(* --------------------------- the event loop ---------------------------- *)
\* a callback can start: the process is alive and nothing is on the stack
CanRun == listening /\ running = Idle

\* an uncaught exception (or an 'error' event without listener) ends the
\* process: the listening socket and every connection close with it
Crash == listening' = FALSE

(* ----------------------- exchange identifiers -------------------------- *)
\* the values Math.random().toString(36).substring(2, 11) can take: nothing
\* in the source makes two draws differ
RequestIds == {"k3f9x0a1b", "q7m2z8c4d"}
NoId == ""

\* the requestId a listener of exchange e works with: the constant captured
\* by the closures registered in handleRequest
ClosureId_Redrawn(e) == CHOOSE id \in RequestIds : id # requestId[e]
ClosureId(e) == requestId[e]

IdUse(site, id) == [site |-> site, id |-> id]

(* --------------- processSseStream: lines 470-568 ----------------------- *)
\* Text is a sequence of tokens, the empty string is <<>> and string
\* concatenation is \o.  An SseEvent is [event, data]; its data is kept by
\* what processSseStream reads of it: whether JSON.parse accepts it, the
\* value of delta.text (<<>> when there is none) and whether the raw data
\* contains the substring 'stop_reason'.
SseEvent(type, data) == [event |-> type, data |-> data]
DeltaData(text) == [json |-> TRUE, text |-> text, stopReason |-> FALSE]
MalformedData == [json |-> FALSE, text |-> <<>>, stopReason |-> FALSE]
StopReasonData == [json |-> TRUE, text |-> <<>>, stopReason |-> TRUE]
PlainData == [json |-> TRUE, text |-> <<>>, stopReason |-> FALSE]

\* the callback of .map(): try { JSON.parse(data).delta?.text || '' } catch { '' }
DeltaText(event) == IF event.data.json THEN event.data.text ELSE <<>>

\* a reading of the batch that gives up at the first unparsable delta
RECURSIVE textDeltas_AbortOnError(_)
textDeltas_AbortOnError(events) ==
    IF events = <<>> THEN <<>>
    ELSE IF events[1].event = "content_block_delta"
         THEN IF ~events[1].data.json THEN <<>>
              ELSE (IF DeltaText(events[1]) # <<>> THEN <<DeltaText(events[1])>> ELSE <<>>)
                       \o textDeltas_AbortOnError(Tail(events))
         ELSE textDeltas_AbortOnError(Tail(events))

\* textDeltas: the batch's content_block_delta events, mapped to their text,
\* without the empty ones
RECURSIVE textDeltas(_)
textDeltas(events) ==
    IF events = <<>> THEN <<>>
    ELSE IF events[1].event = "content_block_delta" /\ DeltaText(events[1]) # <<>>
         THEN <<DeltaText(events[1])>> \o textDeltas(Tail(events))
         ELSE textDeltas(Tail(events))

\* a join that puts later texts first
RECURSIVE Join_Reversed(_)
Join_Reversed(texts) == IF texts = <<>> THEN <<>> ELSE Join_Reversed(Tail(texts)) \o texts[1]

\* Array.prototype.join('')
RECURSIVE Join(_)
Join(texts) == IF texts = <<>> THEN <<>> ELSE texts[1] \o Join(Tail(texts))

hasMessageStop(events) == \E i \in 1..Len(events) : events[i].event = "message_stop"
hasContentBlockStop(events) ==
    \E i \in 1..Len(events) : events[i].event = "content_block_stop"
hasMessageDelta(events) ==
    \E i \in 1..Len(events) :
        events[i].event = "message_delta" /\ events[i].data.stopReason

\* a completion test that takes every message_delta for the end
StreamComplete_AnyMessageDelta(events) ==
    \/ hasMessageStop(events)
    \/ hasContentBlockStop(events)
    \/ \E i \in 1..Len(events) : events[i].event = "message_delta"

\* if (hasMessageStop || hasContentBlockStop || hasMessageDelta)
StreamComplete(events) ==
    hasMessageStop(events) \/ hasContentBlockStop(events) \/ hasMessageDelta(events)

\* an entry of the sseMessages map; NoEntry stands for "no entry under this key"
SseMessage(id, events, merged) ==
    [has |-> TRUE, requestId |-> id, events |-> events, mergedContent |-> merged]
NoEntry == [has |-> FALSE, requestId |-> NoId, events |-> <<>>, mergedContent |-> <<>>]

\* a line handed to the console
Shown(kind, id, text) == [kind |-> kind, id |-> id, text |-> text]
EmptyMessage == <<"<empty message>">>

\* a lookup that never finds the entry: every feed starts a new message
Lookup_AlwaysNew(map, id) == SseMessage(id, <<>>, <<>>)

\* let sseMessage = this.sseMessages.get(requestId); if (!sseMessage) { new one }
Lookup(map, id) == IF map[id].has THEN map[id] ELSE SseMessage(id, <<>>, <<>>)

\* a push that keeps the new batch only
Push_Replace(events, batch) == batch

\* sseMessage.events.push(...events)
Push(events, batch) == events \o batch

\* processSseStream(requestId, body) on the events parseSseEvents found in
\* the body: the map afterwards, whether the stream was found complete, and
\* the console output
processSseStream(map, id, events) ==
    LET found == map[id].has
        sseMessage == Lookup(map, id)
        newText == Join(textDeltas(events))
        merged == sseMessage.mergedContent \o newText
        complete == StreamComplete(events)
        started == IF found THEN <<>>
                   ELSE IF chatMode THEN <<Shown("prefix", id, <<>>)>>
                        ELSE <<Shown("started", id, <<>>)>>
        progress == IF newText # <<>> /\ ~chatMode
                    THEN <<Shown("delta", id, newText)>> ELSE <<>>
        finished == IF ~complete THEN <<>>
                    ELSE IF chatMode
                         THEN IF merged # <<>> THEN <<Shown("message", id, merged)>> ELSE <<>>
                         ELSE <<Shown("message", id, IF merged # <<>> THEN merged ELSE EmptyMessage)>>
    IN  [map |-> [map EXCEPT ![id] =
                    IF complete THEN NoEntry
                    ELSE SseMessage(id, Push(sseMessage.events, events), merged)],
         complete |-> complete,
         mergedContent |-> merged,
         out |-> started \o progress \o finished]

\* ---- processSseStream called directly, on batches of events ----
MaxBatch == 3
MaxFeeds == 2
\* the delta texts "Hi" and " there" of a stream, as tokens
FeedTexts == {<<Payload(0, "text", 1)>>, <<Payload(0, "text", 2)>>}
FeedEvents ==
    {SseEvent("content_block_delta", DeltaData(t)) : t \in FeedTexts}
        \cup {SseEvent("content_block_delta", MalformedData),
              SseEvent("content_block_delta", PlainData),
              SseEvent("message_stop", PlainData),
              SseEvent("content_block_stop", PlainData),
              SseEvent("message_delta", StopReasonData),
              SseEvent("message_delta", PlainData)}
Batches == UNION {[1..n -> FeedEvents] : n \in 0..MaxBatch}

NoFeed == [calls |-> 0, id |-> NoId, events |-> <<>>,
           before |-> [id \in RequestIds |-> NoEntry],
           complete |-> FALSE, mergedContent |-> <<>>, out |-> <<>>]

(* ------------- getFullBody / formatBody: lines 328-427 ----------------- *)
\* Bytes and characters are numbers: NUL, space, 'A', '{', '}', and 255 for
\* a byte that is no valid UTF-8 (decoded as U+FFFD)
MaxBody == 2
Bytes == {0, 32, 65, 123, 125, 255}
ReplacementChar == 65533

\* A Buffer is [coding, content]: "plain" bytes, or the output of a
\* compressor ("gzip", "deflate", "br") applied to content, or "garbage",
\* bytes that are no valid stream of any of the three formats.
Codings == {"plain", "gzip", "deflate", "br", "garbage"}
Buffer(coding, content) == [coding |-> coding, content |-> content]
Buffers == {Buffer(c, b) : c \in Codings, b \in UNION {[1..n -> Bytes] : n \in 0..MaxBody}}

\* body.length: the length of the buffer as received, which for a compressed
\* stream is not the length of its payload (here: payload plus framing)
ByteLength(body) ==
    Len(body.content) + (CASE body.coding = "gzip" -> 18
                           [] body.coding = "deflate" -> 6
                           [] body.coding = "br" -> 1
                           [] OTHER -> 0)

\* the content-encoding headers tried; "" is no header
ContentEncodings == {"", "gzip", "deflate", "br", "GZIP", "identity"}
toLowerCase(str) == IF str = "GZIP" THEN "gzip" ELSE str

\* a decompressor that loses the last byte of the payload
Decompress_Truncating(format, body) ==
    IF body.coding = format
    THEN [ok |-> TRUE, bytes |-> SubSeq(body.content, 1, Len(body.content) - 1)]
    ELSE [ok |-> FALSE, bytes |-> <<>>]

\* zlib.gunzipSync / inflateSync / brotliDecompressSync: the payload, or a
\* throw when the buffer is not a stream of that format
Decompress(format, body) ==
    IF body.coding = format THEN [ok |-> TRUE, bytes |-> body.content]
    ELSE [ok |-> FALSE, bytes |-> <<>>]

\* the switch on contentEncoding.toLowerCase() inside the inner try
Decompressed(body, contentEncoding) ==
    IF contentEncoding # "" /\ toLowerCase(contentEncoding) \in {"gzip", "deflate", "br"}
    THEN Decompress(toLowerCase(contentEncoding), body)
    ELSE [ok |-> TRUE, bytes |-> body.content]

\* isBinaryData: a zero byte among the first 512
SampleSize == 512
Min(a, b) == IF a < b THEN a ELSE b
\* a test that looks at every byte of the buffer
isBinaryData_WholeBuffer(bytes) == \E i \in 1..Len(bytes) : bytes[i] = 0

isBinaryData(bytes) == \E i \in 1..Min(SampleSize, Len(bytes)) : bytes[i] = 0

\* Buffer.toString('utf8')
toString(bytes) == [i \in 1..Len(bytes) |-> IF bytes[i] = 255 THEN ReplacementChar ELSE bytes[i]]

\* the white space of String.prototype.trim and of \s that these texts use
WhiteSpace == {9, 10, 13, 32}

\* String.prototype.trim
RECURSIVE trimStart(_)
trimStart(str) == IF str # <<>> /\ str[1] \in WhiteSpace THEN trimStart(Tail(str)) ELSE str
RECURSIVE trimEnd(_)
trimEnd(str) ==
    IF str # <<>> /\ str[Len(str)] \in WhiteSpace
    THEN trimEnd(SubSeq(str, 1, Len(str) - 1)) ELSE str
trim(str) == trimEnd(trimStart(str))

\* isJsonContent: '{'..'}' (or '['..']', which these characters cannot spell)
isJsonContent(str) ==
    LET trimmed == trim(str)
    IN  trimmed # <<>> /\ trimmed[1] = 123 /\ trimmed[Len(trimmed)] = 125

\* JSON.stringify(JSON.parse(str), null, 2): over these characters the only
\* JSON documents are '{' whitespace '}', printed as '{}'; JSON.parse throws
\* on everything else and the text is kept
Pretty(str) ==
    LET trimmed == trim(str)
    IN  IF Len(trimmed) >= 2 /\ trimmed[1] = 123 /\ trimmed[Len(trimmed)] = 125
           /\ \A i \in 2..(Len(trimmed) - 1) : trimmed[i] = 32
        THEN <<123, 125>> ELSE str

maxLength == 1000
\* '\n... (truncated)'
TruncatedMark ==
    <<10, 46, 46, 46, 32, 40, 116, 114, 117, 110, 99, 97, 116, 101, 100, 41>>

\* what formatBody returns: a text, or one of its two markers
FormatText(str) == [kind |-> "text", text |-> str, length |-> 0, encoding |-> ""]
DecompressionFailed(length, encoding) ==
    [kind |-> "decompression failed", text |-> <<>>, length |-> length, encoding |-> encoding]
BinaryData(length, encoding) ==
    [kind |-> "binary", text |-> <<>>, length |-> length, encoding |-> encoding]

\* a getFullBody that hands the raw bytes on when decompression fails
getFullBody_RawOnFailure(body, contentEncoding) ==
    LET decompressedBody == Decompressed(body, contentEncoding)
    IN  IF ~decompressedBody.ok THEN toString(body.content)
        ELSE IF isBinaryData(decompressedBody.bytes) THEN <<>>
        ELSE toString(decompressedBody.bytes)

\* getFullBody(body, contentEncoding)
getFullBody(body, contentEncoding) ==
    LET decompressedBody == Decompressed(body, contentEncoding)
    IN  IF ~decompressedBody.ok THEN <<>>
        ELSE IF isBinaryData(decompressedBody.bytes) THEN <<>>
        ELSE toString(decompressedBody.bytes)

\* a formatBody that returns the printed text whatever its length
formatBody_NoCap(body, contentEncoding) ==
    LET decompressedBody == Decompressed(body, contentEncoding)
        bodyStr == toString(decompressedBody.bytes)
    IN  IF ~decompressedBody.ok
        THEN DecompressionFailed(ByteLength(body), contentEncoding)
        ELSE IF isBinaryData(decompressedBody.bytes)
        THEN BinaryData(ByteLength(body), contentEncoding)
        ELSE FormatText(IF isJsonContent(bodyStr) THEN Pretty(bodyStr) ELSE bodyStr)

\* formatBody(body, contentEncoding)
formatBody(body, contentEncoding) ==
    LET decompressedBody == Decompressed(body, contentEncoding)
        bodyStr == toString(decompressedBody.bytes)
        printed == IF isJsonContent(bodyStr) THEN Pretty(bodyStr) ELSE bodyStr
    IN  IF ~decompressedBody.ok
        THEN DecompressionFailed(ByteLength(body), contentEncoding)
        ELSE IF isBinaryData(decompressedBody.bytes)
        THEN BinaryData(ByteLength(body), contentEncoding)
        ELSE IF Len(printed) > maxLength
        THEN FormatText(SubSeq(printed, 1, maxLength) \o TruncatedMark)
        ELSE FormatText(printed)

\* a text of maxLength + 1 characters, plain and compressed
LongBodies == {Buffer(c, [i \in 1..(maxLength + 1) |-> 65]) : c \in {"plain", "gzip"}}

\* bodies at the edges of the sample and of the cap: a zero byte at index
\* SampleSize - 1 or SampleSize of a buffer one byte longer than the sample,
\* a text of exactly maxLength characters, and a JSON text longer than
\* maxLength that prints as '{}'
EdgeBodies ==
    {Buffer(c, [i \in 1..(SampleSize + 1) |-> IF i = k THEN 0 ELSE 65]) :
        c \in {"plain", "gzip"}, k \in {SampleSize, SampleSize + 1}}
    \cup {Buffer(c, [i \in 1..maxLength |-> 65]) : c \in {"plain", "br"}}
    \cup {Buffer("plain", <<123>> \o [i \in 1..maxLength |-> 32] \o <<125>>)}

\* a call made by logRequestBody / logResponseBody and the string it passes
Call(fn, arg) == [fn |-> fn, arg |-> arg]

\* logRequestBody, lines 271-291: the functions it calls and the string each
\* one is given (the result of getFullBody, or bodyStr = formatBody(...))
logRequestBodyCalls(body, contentEncoding) ==
    (IF chatMode
     THEN <<Call("extractChatMessage", FormatText(getFullBody(body, contentEncoding)))>>
     ELSE <<>>)
    \o (IF chatMode
        THEN <<Call("formatCompactRequest", formatBody(body, contentEncoding))>>
        ELSE <<Call("console.log", formatBody(body, contentEncoding))>>)

\* logResponseBody past the event-stream test, lines 304-325
logResponseBodyCalls(body, contentEncoding) ==
    (IF chatMode
     THEN <<Call("extractChatMessage", FormatText(getFullBody(body, contentEncoding)))>>
     ELSE <<>>)
    \o (IF chatMode
        THEN <<Call("formatCompactResponse", formatBody(body, contentEncoding))>>
        ELSE <<Call("console.log", formatBody(body, contentEncoding))>>)

NoCall == [fn |-> ""]

NoCodec == [fn |-> "", body |-> Buffer("plain", <<>>), contentEncoding |-> "",
            full |-> <<>>, formatted |-> FormatText(<<>>),
            requestCalls |-> <<>>, responseCalls |-> <<>>]

(* --------------- extractChatMessage: lines 647-792 --------------------- *)
\* strings are sequences of character codes
OpenTag == <<60, 115, 121, 115, 116, 101, 109, 45, 114, 101, 109, 105, 110, 100, 101, 114, 62>>
CloseTag == <<60, 47, 115, 121, 115, 116, 101, 109, 45, 114, 101, 109, 105, 110, 100, 101, 114, 62>>
ContentsOf == <<67, 111, 110, 116, 101, 110, 116, 115, 32, 111, 102>>
Fence == <<96, 96, 96>>
Ellipsis == <<46, 46, 46>>
NewLine == <<10>>
Digits == 48..57

\* str has pat at (1-based) position i
HasAt(str, pat, i) ==
    i + Len(pat) - 1 <= Len(str) /\ SubSeq(str, i, i + Len(pat) - 1) = pat

\* the first position >= from where pat occurs, 0 when there is none
IndexOf(str, pat, from) ==
    LET found == {i \in from..(Len(str) - Len(pat) + 1) : HasAt(str, pat, i)}
    IN  IF found = {} THEN 0 ELSE CHOOSE i \in found : \A j \in found : i <= j

\* String.prototype.includes
includes(str, pat) == IndexOf(str, pat, 1) # 0

\* String.prototype.substring(start, end), 0-based, end exclusive
substring(str, start, end) == SubSeq(str, start + 1, Min(end, Len(str)))

\* String.prototype.split(sep)
RECURSIVE split(_, _)
split(str, sep) ==
    LET i == IndexOf(str, sep, 1)
    IN  IF i = 0 THEN <<str>>
        ELSE <<SubSeq(str, 1, i - 1)>> \o split(SubSeq(str, i + Len(sep), Len(str)), sep)

\* Array.prototype.join(sep)
RECURSIVE join(_, _)
join(parts, sep) ==
    IF parts = <<>> THEN <<>>
    ELSE IF Len(parts) = 1 THEN parts[1]
    ELSE parts[1] \o sep \o join(Tail(parts), sep)

\* text.match(/<system-reminder>([\s\S]*?)<\/system-reminder>/g), from a position on
RECURSIVE MatchReminders(_, _)
MatchReminders(str, from) ==
    LET i == IndexOf(str, OpenTag, from)
        j == IF i = 0 THEN 0 ELSE IndexOf(str, CloseTag, i + Len(OpenTag))
    IN  IF j = 0 THEN <<>>
        ELSE <<SubSeq(str, i, j + Len(CloseTag) - 1)>>
             \o MatchReminders(str, j + Len(CloseTag))

\* reminder.replace(/<\/?system-reminder>/g, '')
RECURSIVE RemoveTags(_)
RemoveTags(str) ==
    LET open == IndexOf(str, OpenTag, 1)
        close == IndexOf(str, CloseTag, 1)
    IN  IF open = 0 /\ close = 0 THEN str
        ELSE IF close = 0 \/ (open # 0 /\ open < close)
        THEN SubSeq(str, 1, open - 1)
             \o RemoveTags(SubSeq(str, open + Len(OpenTag), Len(str)))
        ELSE SubSeq(str, 1, close - 1)
             \o RemoveTags(SubSeq(str, close + Len(CloseTag), Len(str)))

\* text.match(/Contents of ([^:]+):/): the first 'Contents of ' that is
\* followed by at least one character other than ':' and then a ':'
FileMatchAt(str, i) ==
    /\ HasAt(str, ContentsOf \o <<32>>, i)
    /\ \E c \in (i + Len(ContentsOf) + 2)..Len(str) :
          /\ str[c] = 58
          /\ \A k \in (i + Len(ContentsOf) + 1)..(c - 1) : str[k] # 58
fileMatch(str) ==
    IF \E i \in 1..Len(str) : FileMatchAt(str, i)
    THEN LET i == CHOOSE i \in 1..Len(str) :
                    FileMatchAt(str, i) /\ \A j \in 1..(i - 1) : ~FileMatchAt(str, j)
             from == i + Len(ContentsOf) + 1
         IN  [found |-> TRUE, name |-> SubSeq(str, from, IndexOf(str, <<58>>, from) - 1)]
    ELSE [found |-> FALSE, name |-> <<>>]

\* the first position >= i whose character is outside the class
Skip(str, i, class) ==
    LET others == {k \in i..Len(str) : str[k] \notin class}
    IN  IF others = {} THEN Len(str) + 1 ELSE CHOOSE k \in others : \A j \in others : k <= j

\* content.match(/^\s*\d+→/m): a line that starts with optional white space,
\* digits and an arrow
MatchesLineNumbers(str) ==
    \E p \in 1..Len(str) :
        /\ p = 1 \/ str[p - 1] \in {10, 13}
        /\ LET q == Skip(str, p, WhiteSpace)
               d == Skip(str, q, Digits)
           IN  q < d /\ d <= Len(str) /\ str[d] = 8594

\* the lengths the non-verbose display cuts to
ReminderLimit == 200
ToolResultLimit == 200
PreviousLimit == 100
ToolResultLines == 5

\* content.substring(0, n) + (content.length > n ? '...' : '')
Shortened(content, n) ==
    substring(content, 0, n) \o (IF Len(content) > n THEN Ellipsis ELSE <<>>)

\* the values JSON.parse can return, as far as extractChatMessage looks at them
String(s) == [t |-> "string", s |-> s]
Array(a) == [t |-> "array", a |-> a]
Null == [t |-> "null"]
Undefined == [t |-> "undefined"]
Item(type, text, content) ==
    [t |-> "object", type |-> type, text |-> text, content |-> content]
Message(role, content) == [t |-> "object", role |-> role, content |-> content]
Data(messages, content) == [t |-> "object", messages |-> messages, content |-> content]
\* a body: not JSON (JSON.parse throws), or the text of a JSON value
NotJson == [json |-> FALSE, data |-> Null]
Json(data) == [json |-> TRUE, data |-> data]

\* JavaScript truthiness
Truthy(v) == v.t \notin {"null", "undefined"} /\ ~(v.t = "string" /\ v.s = <<>>)

\* what a console.log of extractChatMessage shows: the kind of line, its text
\* as handed to renderMarkdown / chalk, and for a summary line the count in it
Line(kind, text) == [kind |-> kind, text |-> text, n |-> 0]
Count(kind, n) == [kind |-> kind, text |-> <<>>, n |-> n]
\* the result of a stretch of code: what it printed, and whether it threw
Done(out) == [out |-> out, threw |-> FALSE]
Thrown(out) == [out |-> out, threw |-> TRUE]

\* lines 681-701: a text with a system-reminder tag
ReminderOut(text) ==
    LET reminders == MatchReminders(text, 1)
        userPart == LET parts == split(text, CloseTag) IN trim(parts[Len(parts)])
    IN  [r \in 1..Len(reminders) |->
            LET content == trim(RemoveTags(reminders[r]))
            IN  Line("system-reminder",
                     IF verbose THEN content ELSE Shortened(content, ReminderLimit))]
        \o (IF userPart # <<>> THEN <<Line("user", userPart)>> ELSE <<>>)

\* lines 702-712: a text with inlined file contents
FileOut(text) ==
    IF fileMatch(text).found
    THEN <<Line("file", fileMatch(text).name),
           IF verbose THEN Line("file-content", text) ELSE Count("file-size", Len(text))>>
    ELSE <<>>

\* lines 679-717: a text item of a user message
TextItemOut(text) ==
    IF includes(text, OpenTag) THEN ReminderOut(text)
    ELSE IF includes(text, ContentsOf) /\ includes(text, Fence) THEN FileOut(text)
    ELSE <<Line("user", text)>>

\* lines 720-741: a tool result whose content is a string
ToolResultOut(content) ==
    IF MatchesLineNumbers(content)
    THEN LET lines == split(content, NewLine)
         IN  <<Count("tool-result-lines", Len(lines))>>
             \o (IF verbose
                 THEN <<Line("tool-result", join(lines, <<10, 32, 32>>))>>
                 ELSE <<Line("tool-result",
                             join(SubSeq(lines, 1, Min(ToolResultLines, Len(lines))),
                                  <<10, 32, 32>>))>>
                      \o (IF Len(lines) > ToolResultLines
                          THEN <<Line("more", Ellipsis)>> ELSE <<>>))
    ELSE <<Line("tool-result",
                IF verbose THEN content ELSE Shortened(content, ToolResultLimit))>>

\* lines 678-743, the callback of message.content.forEach: reading a property
\* of null throws, a primitive has no type, and item.content.match exists
\* only on a string
ItemOut(item) ==
    IF item.t \in {"null", "undefined"} THEN Thrown(<<>>)
    ELSE IF item.t # "object" THEN Done(<<>>)
    ELSE IF item.type = "text" /\ Truthy(item.text) THEN Done(TextItemOut(item.text.s))
    ELSE IF item.type = "tool_result" /\ Truthy(item.content)
    THEN IF item.content.t = "string"
         THEN Done(<<Line("tool-header", <<>>)>> \o ToolResultOut(item.content.s))
         ELSE Thrown(<<Line("tool-header", <<>>)>>)
    ELSE Done(<<>>)

\* a forEach that stops at the first callback that throws
RECURSIVE ItemsOut(_)
ItemsOut(items) ==
    IF items = <<>> THEN Done(<<>>)
    ELSE LET first == ItemOut(Head(items))
         IN  IF first.threw THEN first
             ELSE LET rest == ItemsOut(Tail(items))
                  IN  [out |-> first.out \o rest.out, threw |-> rest.threw]

\* lines 747-749: the text of an earlier assistant message
PreviousContent(message) ==
    IF message.content.t = "string" THEN message.content.s
    ELSE IF /\ message.content.t = "array"
            /\ message.content.a # <<>>
            /\ message.content.a[1].t = "object"
            /\ Truthy(message.content.a[1].text)
    THEN message.content.a[1].text.s
    ELSE <<>>

\* lines 664-761, the callback of data.messages.forEach; idx counts from 1
MessageOut(message, idx, length) ==
    IF message.t \in {"null", "undefined"} THEN Thrown(<<>>)
    ELSE IF message.t # "object" THEN Done(<<>>)
    ELSE IF message.role = "user"
    THEN IF message.content.t = "string"
         THEN Done(<<Line("blank", <<>>), Line("user", message.content.s)>>)
         ELSE IF message.content.t = "array"
         THEN LET items == ItemsOut(message.content.a)
              IN  [out |-> <<Line("blank", <<>>)>> \o items.out, threw |-> items.threw]
         ELSE Done(<<Line("blank", <<>>)>>)
    ELSE IF message.role = "assistant" /\ idx < length
    THEN LET content == PreviousContent(message)
         IN  IF content # <<>>
             THEN Done(<<Line("assistant-previous",
                             IF verbose THEN content
                             ELSE substring(content, 0, PreviousLimit) \o Ellipsis)>>)
             ELSE Done(<<>>)
    ELSE Done(<<>>)

RECURSIVE MessagesOut(_, _)
MessagesOut(messages, idx) ==
    IF idx > Len(messages) THEN Done(<<>>)
    ELSE LET first == MessageOut(messages[idx], idx, Len(messages))
         IN  IF first.threw THEN first
             ELSE LET rest == MessagesOut(messages, idx + 1)
                  IN  [out |-> first.out \o rest.out, threw |-> rest.threw]

\* a concatenation that keeps only the first text item
RECURSIVE textContent_FirstOnly(_)
textContent_FirstOnly(content) ==
    IF content = <<>> THEN <<>>
    ELSE IF Head(content).type = "text"
    THEN IF Head(content).text.t = "string" THEN Head(content).text.s ELSE <<>>
    ELSE textContent_FirstOnly(Tail(content))

\* lines 768-771: filter(type === 'text').map(text).join(''), on items that
\* are objects; join prints a missing text as ''
RECURSIVE textContent(_)
textContent(content) ==
    IF content = <<>> THEN <<>>
    ELSE (IF Head(content).type = "text" /\ Head(content).text.t = "string"
          THEN Head(content).text.s ELSE <<>>)
         \o textContent(Tail(content))

\* lines 762-780: the content array of a response
ResponseOut(content) ==
    IF \E i \in 1..Len(content) : content[i].t \in {"null", "undefined"}
    THEN Thrown(<<>>)
    ELSE LET objects == SelectSeq(content, LAMBDA item : item.t = "object")
         IN  IF trim(textContent(objects)) # <<>>
             THEN Done(<<Line("assistant", textContent(objects))>>)
             ELSE Done(<<>>)

\* extractChatMessage(_requestId, bodyStr, role): everything runs inside one
\* try whose catch prints nothing, so the caller sees a plain return
extractChatMessage(bodyStr, role) ==
    IF ~bodyStr.json \/ bodyStr.data.t = "null" THEN Thrown(<<>>)
    ELSE IF bodyStr.data.t # "object" THEN Done(<<>>)
    ELSE IF /\ role = "user"
            /\ Truthy(bodyStr.data.messages)
            /\ bodyStr.data.messages.t = "array"
    THEN MessagesOut(bodyStr.data.messages.a, 1)
    ELSE IF /\ role = "assistant"
            /\ Truthy(bodyStr.data.content)
            /\ bodyStr.data.content.t = "array"
    THEN ResponseOut(bodyStr.data.content.a)
    ELSE Done(<<>>)

(* ------------------- handleRequest: lines 83-142 ----------------------- *)
\* a copy that is kept whatever the options say
Accumulate_Always(body, c) == Append(body, c)

\* the accumulating copy: if (logBody || chatMode) body = Buffer.concat([body, chunk])
Accumulate(body, c) == IF Inspect THEN Append(body, c) ELSE body

\* a forwarding path that depends on the inspection switch
ProxyReqWrite_OnlyUninspected(written, c) == IF Inspect THEN written ELSE Append(written, c)

\* proxyReq.write(chunk)
ProxyReqWrite(written, c) == Append(written, c)

\* an upstream that reports the failure and goes on delivering
UpstreamGone_KeepsFlowing(e, alsoReq) ==
    /\ UNCHANGED upstream
    /\ reqErrorQueued' = [reqErrorQueued EXCEPT ![e] =
          @ \/ upstream[e] = "pending" \/ (upstream[e] = "responding" /\ alsoReq)]
    /\ resErrorQueued' = [resErrorQueued EXCEPT ![e] = @ \/ upstream[e] = "responding"]
    /\ upstreamError' = [upstreamError EXCEPT ![e] =
          IF @ # "none" \/ upstream[e] \notin {"pending", "responding"} THEN @
          ELSE IF HeadersSent(resOut[e]) THEN "afterHeaders" ELSE "beforeHeaders"]

\* what Node emits once the upstream socket is gone (after proxyReq.destroy()
\* or a socket failure): before 'response' an 'error' on proxyReq, during the
\* response body an 'error' ('aborted') on proxyRes
UpstreamGone(e, alsoReq) ==
    /\ upstream' = [upstream EXCEPT ![e] = IF @ \in {"pending", "responding"} THEN "failed" ELSE @]
    /\ reqErrorQueued' = [reqErrorQueued EXCEPT ![e] =
          @ \/ upstream[e] = "pending" \/ (upstream[e] = "responding" /\ alsoReq)]
    /\ resErrorQueued' = [resErrorQueued EXCEPT ![e] = @ \/ upstream[e] = "responding"]
    /\ upstreamError' = [upstreamError EXCEPT ![e] =
          IF @ # "none" \/ upstream[e] \notin {"pending", "responding"} THEN @
          ELSE IF HeadersSent(resOut[e]) THEN "afterHeaders" ELSE "beforeHeaders"]

\* a client request is accepted: handleRequest draws the requestId, opens the
\* upstream request and registers its listeners
HandleRequest(e, id) ==
    /\ CanRun
    /\ req[e] = "none"
    /\ \A d \in Exchanges : d < e => req[d] # "none"
    /\ requestId' = [requestId EXCEPT ![e] = id]
    /\ idUses' = [idUses EXCEPT ![e] = @ \cup {IdUse("handleRequest", id)}]
    /\ req' = [req EXCEPT ![e] = "open"]
    /\ proxyReq' = [proxyReq EXCEPT ![e] = "open"]
    /\ upstream' = [upstream EXCEPT ![e] = "pending"]
    /\ UNCHANGED <<connectId, contentType, sseMessages, display, lastFeed, lastCodec, lastCall>>
    /\ UNCHANGED <<listening, optVars, running, tunVars, reqRead, requestBody,
                   proxyReqDestroyed, proxyReqWritten, reqErrorQueued, resErrorQueued,
                   proxyResRead, responseBody, resOut, reqLogged, resLogged, upstreamError>>

\* req.on('data')
ReqOnData(e, c) ==
    /\ CanRun
    /\ req[e] = "open"
    /\ Len(reqRead[e]) < MaxChunks
    /\ reqRead' = [reqRead EXCEPT ![e] = Append(@, c)]
    /\ requestBody' = [requestBody EXCEPT ![e] = Accumulate(@, c)]
    /\ proxyReqWritten' = [proxyReqWritten EXCEPT ![e] = ProxyReqWrite(@, c)]
    /\ UNCHANGED <<listening, optVars, logVars, running, tunVars, req, proxyReq, proxyReqDestroyed,
                   upstream, reqErrorQueued, resErrorQueued, proxyResRead, responseBody,
                   resOut, reqLogged, resLogged, upstreamError>>

\* body-processing of every inspected body, empty or not
ShouldProcess_Always(body) == Inspect

\* the condition under which an end-of-body handler calls body-processing
ShouldProcess(body) == Inspect /\ Len(body) > 0

\* req.on('end'): logRequestBody (when there is a body to inspect), then proxyReq.end()
ReqOnEnd(e) ==
    /\ CanRun
    /\ req[e] = "open"
    /\ req' = [req EXCEPT ![e] = "ended"]
    /\ IF ShouldProcess(requestBody[e])
       THEN /\ running' = [ex |-> e, dir |-> "req"]
            /\ UNCHANGED proxyReq
       ELSE /\ proxyReq' = [proxyReq EXCEPT ![e] = "ended"]
            /\ UNCHANGED running
    /\ UNCHANGED <<listening, optVars, logVars, tunVars, reqRead, requestBody, proxyReqDestroyed,
                   proxyReqWritten, upstream, reqErrorQueued, resErrorQueued, proxyResRead,
                   responseBody, resOut, reqLogged, resLogged, upstreamError>>

\* the client connection can break for as long as the exchange is not over:
\* while the request body is read, or later while the response is still open
ClientCanAbort(e) ==
    \/ req[e] = "open"
    \/ req[e] = "ended" /\ ~WritableEnded(resOut[e])

\* an error listener that only logs
ReqOnError_LogOnly(e) ==
    /\ CanRun
    /\ ClientCanAbort(e)
    /\ req' = [req EXCEPT ![e] = "errored"]
    /\ UNCHANGED <<listening, optVars, logVars, running, tunVars, reqRead, requestBody, proxyReq,
                   proxyReqDestroyed, proxyReqWritten, upstream, reqErrorQueued,
                   resErrorQueued, proxyResRead, responseBody, resOut, reqLogged,
                   resLogged, upstreamError>>

\* req.on('error'): proxyReq.destroy()
ReqOnError(e) ==
    /\ CanRun
    /\ ClientCanAbort(e)
    /\ req' = [req EXCEPT ![e] = "errored"]
    /\ proxyReqDestroyed' = [proxyReqDestroyed EXCEPT ![e] = TRUE]
    /\ UpstreamGone(e, FALSE)
    /\ UNCHANGED <<listening, optVars, logVars, running, tunVars, reqRead, requestBody, proxyReq,
                   proxyReqWritten, proxyResRead, responseBody, resOut, reqLogged,
                   resLogged>>

\* an error listener that replies but leaves the response open
ProxyReqOnError_NoEnd(e) ==
    /\ CanRun
    /\ reqErrorQueued[e]
    /\ reqErrorQueued' = [reqErrorQueued EXCEPT ![e] = FALSE]
    /\ resOut' = [resOut EXCEPT ![e] =
          IF ~HeadersSent(@) THEN ResWriteHead(@, ProxyErrorStatus) ELSE @]
    /\ UNCHANGED <<listening, optVars, logVars, running, tunVars, req, reqRead, requestBody, proxyReq,
                   proxyReqDestroyed, proxyReqWritten, upstream, resErrorQueued,
                   proxyResRead, responseBody, reqLogged, resLogged, upstreamError>>

\* proxyReq.on('error'): 500 'Proxy Error' unless the headers went out already
ProxyReqOnError(e) ==
    /\ CanRun
    /\ reqErrorQueued[e]
    /\ reqErrorQueued' = [reqErrorQueued EXCEPT ![e] = FALSE]
    /\ resOut' = [resOut EXCEPT ![e] =
          IF ~HeadersSent(@)
          THEN ResEnd(ResWriteHead(@, ProxyErrorStatus), ProxyErrorBody)
          ELSE @]
    /\ UNCHANGED <<listening, optVars, logVars, running, tunVars, req, reqRead, requestBody, proxyReq,
                   proxyReqDestroyed, proxyReqWritten, upstream, resErrorQueued,
                   proxyResRead, responseBody, reqLogged, resLogged, upstreamError>>

(* ------------------- handleResponse: lines 144-181 --------------------- *)
\* the 'response' callback of http(s).request: res.writeHead(statusCode, headers)
HandleResponse(e, status, ctype) ==
    /\ CanRun
    /\ upstream[e] = "pending"
    /\ idUses' = [idUses EXCEPT ![e] = @ \cup {IdUse("handleResponse", ClosureId(e))}]
    /\ contentType' = [contentType EXCEPT ![e] = ctype]
    /\ UNCHANGED <<requestId, connectId, sseMessages, display, lastFeed, lastCodec, lastCall>>
    /\ IF HeadersSent(resOut[e])
       THEN /\ Crash
            /\ UNCHANGED <<upstream, resOut>>
       ELSE /\ upstream' = [upstream EXCEPT ![e] = "responding"]
            /\ resOut' = [resOut EXCEPT ![e] = ResWriteHead(@, status)]
            /\ UNCHANGED listening
    /\ UNCHANGED <<optVars, running, tunVars, req, reqRead, requestBody, proxyReq,
                   proxyReqDestroyed, proxyReqWritten, reqErrorQueued, resErrorQueued,
                   proxyResRead, responseBody, reqLogged, resLogged, upstreamError>>

\* a data listener that hands every chunk of an event stream to the reassembler
ProxyResOnData_Feeding(e, c) ==
    /\ CanRun
    /\ upstream[e] = "responding"
    /\ Len(proxyResRead[e]) < MaxChunks
    /\ proxyResRead' = [proxyResRead EXCEPT ![e] = Append(@, c)]
    /\ responseBody' = [responseBody EXCEPT ![e] = Accumulate(@, c)]
    /\ IF WritableEnded(resOut[e])
       THEN Crash /\ UNCHANGED resOut
       ELSE resOut' = [resOut EXCEPT ![e] = ResWrite(@, c)] /\ UNCHANGED listening
    /\ IF Inspect /\ (mergeSse \/ chatMode) /\ contentType[e] = "text/event-stream"
       THEN LET fed == processSseStream(sseMessages, ClosureId(e),
                                        <<SseEvent("content_block_delta", DeltaData(<<c>>))>>)
            IN  /\ sseMessages' = fed.map
                /\ display' = [display EXCEPT ![e] = @ \o fed.out]
       ELSE UNCHANGED <<sseMessages, display>>
    /\ UNCHANGED <<requestId, connectId, idUses, contentType, lastFeed, lastCodec, lastCall>>
    /\ UNCHANGED <<optVars, running, tunVars, req, reqRead, requestBody, proxyReq,
                   proxyReqDestroyed, proxyReqWritten, upstream, reqErrorQueued,
                   resErrorQueued, reqLogged, resLogged, upstreamError>>

\* proxyRes.on('data')
ProxyResOnData(e, c) ==
    /\ CanRun
    /\ upstream[e] = "responding"
    /\ Len(proxyResRead[e]) < MaxChunks
    /\ proxyResRead' = [proxyResRead EXCEPT ![e] = Append(@, c)]
    /\ responseBody' = [responseBody EXCEPT ![e] = Accumulate(@, c)]
    /\ IF WritableEnded(resOut[e])
       THEN Crash /\ UNCHANGED resOut
       ELSE resOut' = [resOut EXCEPT ![e] = ResWrite(@, c)] /\ UNCHANGED listening
    /\ UNCHANGED <<optVars, logVars, running, tunVars, req, reqRead, requestBody, proxyReq,
                   proxyReqDestroyed, proxyReqWritten, upstream, reqErrorQueued,
                   resErrorQueued, reqLogged, resLogged, upstreamError>>

\* proxyRes.on('end'): logResponseBody (when there is a body to inspect), then res.end()
ProxyResOnEnd(e) ==
    /\ CanRun
    /\ upstream[e] = "responding"
    /\ upstream' = [upstream EXCEPT ![e] = "complete"]
    /\ IF ShouldProcess(responseBody[e])
       THEN /\ running' = [ex |-> e, dir |-> "res"]
            /\ UNCHANGED resOut
       ELSE /\ resOut' = [resOut EXCEPT ![e] = ResEnd(@, NoData)]
            /\ UNCHANGED running
    /\ UNCHANGED <<listening, optVars, logVars, tunVars, req, reqRead, requestBody, proxyReq,
                   proxyReqDestroyed, proxyReqWritten, reqErrorQueued, resErrorQueued,
                   proxyResRead, responseBody, reqLogged, resLogged, upstreamError>>

\* an error listener that only logs
ProxyResOnError_LogOnly(e) ==
    /\ CanRun
    /\ resErrorQueued[e]
    /\ resErrorQueued' = [resErrorQueued EXCEPT ![e] = FALSE]
    /\ UNCHANGED <<listening, optVars, logVars, running, tunVars, req, reqRead, requestBody, proxyReq,
                   proxyReqDestroyed, proxyReqWritten, upstream, reqErrorQueued, resOut,
                   proxyResRead, responseBody, reqLogged, resLogged, upstreamError>>

\* proxyRes.on('error'): if (!res.writableEnded) res.end()
ProxyResOnError(e) ==
    /\ CanRun
    /\ resErrorQueued[e]
    /\ resErrorQueued' = [resErrorQueued EXCEPT ![e] = FALSE]
    /\ resOut' = [resOut EXCEPT ![e] = IF ~WritableEnded(@) THEN ResEnd(@, NoData) ELSE @]
    /\ UNCHANGED <<listening, optVars, logVars, running, tunVars, req, reqRead, requestBody, proxyReq,
                   proxyReqDestroyed, proxyReqWritten, upstream, reqErrorQueued,
                   proxyResRead, responseBody, reqLogged, resLogged, upstreamError>>

\* headers['content-type'] of the upstream responses; NoContentType stands
\* for a response without the header (undefined)
EventStream == "text/event-stream"
EventStreamCharset == "text/event-stream; charset=utf-8"
NoContentType == ""
ContentTypes == {EventStream, EventStreamCharset, "application/json", NoContentType}

\* the characters of a header value
Characters(ctype) ==
    CASE ctype = EventStream ->
            <<116, 101, 120, 116, 47, 101, 118, 101, 110, 116, 45, 115, 116, 114, 101, 97, 109>>
      [] ctype = EventStreamCharset ->
            <<116, 101, 120, 116, 47, 101, 118, 101, 110, 116, 45, 115, 116, 114, 101, 97, 109,
              59, 32, 99, 104, 97, 114, 115, 101, 116, 61, 117, 116, 102, 45, 56>>
      [] ctype = "application/json" ->
            <<97, 112, 112, 108, 105, 99, 97, 116, 105, 111, 110, 47, 106, 115, 111, 110>>
      [] OTHER -> <<>>

\* a test for the bare media type only
IsEventStream_Exact(ctype) == ctype = EventStream

\* contentType?.includes('text/event-stream')
IsEventStream(ctype) ==
    ctype # NoContentType /\ includes(Characters(ctype), Characters(EventStream))

\* the events parseSseEvents finds in one chunk of an event stream (chunks
\* end on event boundaries): a content_block_delta whose text is the chunk's
\* own payload, and, in the last chunk the upstream has to send, message_stop
ChunkEvents(c) ==
    <<SseEvent("content_block_delta", DeltaData(<<c>>))>>
        \o (IF c[3] = MaxChunks THEN <<SseEvent("message_stop", PlainData)>> ELSE <<>>)

\* parseSseEvents(body.toString('utf8')) of an accumulated event stream
RECURSIVE BodyEvents(_)
BodyEvents(body) ==
    IF body = <<>> THEN <<>> ELSE ChunkEvents(body[1]) \o BodyEvents(Tail(body))

\* logRequestBody: chat mode extracts the user's message from the full body
\* and summarises the formatted body; otherwise the formatted body is printed
logRequestBody(id, body) ==
    IF chatMode
    THEN <<Shown("extract", id, body), Shown("compact", id, body)>>
    ELSE <<Shown("body", id, body)>>

\* logResponseBody: an event stream goes to processSseStream and nowhere
\* else; any other body goes to extraction (chat mode) or is printed
logResponseBody(map, id, body, ctype) ==
    IF (mergeSse \/ chatMode) /\ IsEventStream(ctype)
    THEN LET fed == processSseStream(map, id, BodyEvents(body))
         IN  [map |-> fed.map, out |-> fed.out]
    ELSE [map |-> map,
          out |-> IF chatMode THEN <<Shown("extract", id, body)>>
                  ELSE <<Shown("body", id, body)>>]

\* the synchronous body-processing call returns and the end-of-body handler
\* goes on: proxyReq.end() after logRequestBody, res.end() after logResponseBody
FinishInspect ==
    /\ listening
    /\ running # Idle
    /\ running' = Idle
    /\ IF running.dir = "req"
       THEN /\ reqLogged' = [reqLogged EXCEPT ![running.ex] = Append(@, requestBody[running.ex])]
            /\ idUses' = [idUses EXCEPT ![running.ex] =
                  @ \cup {IdUse("logRequestBody", ClosureId(running.ex))}]
            /\ display' = [display EXCEPT ![running.ex] =
                  @ \o logRequestBody(ClosureId(running.ex), requestBody[running.ex])]
            /\ proxyReq' = [proxyReq EXCEPT ![running.ex] = "ended"]
            /\ UNCHANGED <<resLogged, resOut, sseMessages>>
       ELSE /\ resLogged' = [resLogged EXCEPT ![running.ex] = Append(@, responseBody[running.ex])]
            /\ idUses' = [idUses EXCEPT ![running.ex] =
                  @ \cup {IdUse("logResponseBody", ClosureId(running.ex))}]
            /\ LET done == logResponseBody(sseMessages, ClosureId(running.ex),
                                           responseBody[running.ex], contentType[running.ex])
               IN  /\ sseMessages' = done.map
                   /\ display' = [display EXCEPT ![running.ex] = @ \o done.out]
            /\ resOut' = [resOut EXCEPT ![running.ex] = ResEnd(@, NoData)]
            /\ UNCHANGED <<reqLogged, proxyReq>>
    /\ UNCHANGED <<requestId, connectId, contentType, lastFeed, lastCodec, lastCall>>
    /\ UNCHANGED <<listening, optVars, tunVars, req, reqRead, requestBody, proxyReqDestroyed,
                   proxyReqWritten, upstream, reqErrorQueued, resErrorQueued, proxyResRead,
                   responseBody, upstreamError>>

\* the connection to the upstream host fails (refused, reset, closed early)
UpstreamFail(e, alsoReq) ==
    /\ CanRun
    /\ upstream[e] \in {"pending", "responding"}
    /\ upstream[e] = "pending" => alsoReq
    /\ UpstreamGone(e, alsoReq)
    /\ UNCHANGED <<listening, optVars, logVars, running, tunVars, req, reqRead, requestBody, proxyReq,
                   proxyReqDestroyed, proxyReqWritten, proxyResRead, responseBody, resOut,
                   reqLogged, resLogged>>

(* ----------------- parseSseEvents: lines 570-604 ------------------------ *)
EventPrefix == <<101, 118, 101, 110, 116, 58>>
DataPrefix == <<100, 97, 116, 97, 58>>
IdPrefix == <<105, 100, 58>>

\* String.prototype.startsWith
startsWith(str, pat) == HasAt(str, pat, 1)

\* let currentEvent: SseEvent = {}: the keys the object has, and their values
EmptyEvent == [keys |-> {}, event |-> <<>>, data |-> <<>>, id |-> <<>>]

\* a parser that pushes the pending frame at every blank line
ShouldPush_Always(currentEvent) == TRUE

\* Object.keys(currentEvent).length > 0
ShouldPush(currentEvent) == currentEvent.keys # {}

\* a data line that replaces what the frame had
AddData_Replace(currentEvent, data) ==
    [currentEvent EXCEPT !.keys = @ \cup {"data"}, !.data = data]

\* currentEvent.data = (currentEvent.data || '') + data
AddData(currentEvent, data) ==
    [currentEvent EXCEPT !.keys = @ \cup {"data"}, !.data = @ \o data]

\* a loop body that pushes the pending frame at a blank line and keeps it
ParseLine_KeepFrame(parsed, line) ==
    LET trimmedLine == trim(line)
        currentEvent == parsed.currentEvent
    IN  IF trimmedLine = <<>>
        THEN IF ShouldPush(currentEvent)
             THEN [parsed EXCEPT !.events = Append(@, currentEvent)]
             ELSE parsed
        ELSE IF startsWith(trimmedLine, DataPrefix)
        THEN [parsed EXCEPT !.currentEvent =
                AddData(currentEvent, trim(substring(trimmedLine, 5, Len(trimmedLine))))]
        ELSE parsed

\* the body of the for loop, lines 577-595: the events pushed so far and the
\* pending frame after one more line
ParseLine(parsed, line) ==
    LET trimmedLine == trim(line)
        currentEvent == parsed.currentEvent
    IN  IF trimmedLine = <<>>
        THEN IF ShouldPush(currentEvent)
             THEN [events |-> Append(parsed.events, currentEvent), currentEvent |-> EmptyEvent]
             ELSE parsed
        ELSE IF startsWith(trimmedLine, EventPrefix)
        THEN [parsed EXCEPT !.currentEvent =
                [currentEvent EXCEPT !.keys = @ \cup {"event"},
                    !.event = trim(substring(trimmedLine, 6, Len(trimmedLine)))]]
        ELSE IF startsWith(trimmedLine, DataPrefix)
        THEN [parsed EXCEPT !.currentEvent =
                AddData(currentEvent, trim(substring(trimmedLine, 5, Len(trimmedLine))))]
        ELSE IF startsWith(trimmedLine, IdPrefix)
        THEN [parsed EXCEPT !.currentEvent =
                [currentEvent EXCEPT !.keys = @ \cup {"id"},
                    !.id = trim(substring(trimmedLine, 3, Len(trimmedLine)))]]
        ELSE parsed

\* for (const line of lines)
RECURSIVE ParseLines(_, _)
ParseLines(parsed, lines) ==
    IF lines = <<>> THEN parsed
    ELSE ParseLines(ParseLine(parsed, Head(lines)), Tail(lines))

\* parseSseEvents(sseData)
parseSseEvents(sseData) ==
    LET parsed == ParseLines([events |-> <<>>, currentEvent |-> EmptyEvent],
                             split(sseData, NewLine))
    IN  IF parsed.currentEvent.keys # {}
        THEN Append(parsed.events, parsed.currentEvent)
        ELSE parsed.events

\* the lines the parser is tried on: blank, white, the three fields with and
\* without a value and white space around it, an unrecognised field, plain text
MaxLines == 4
SseLines ==
    {<<>>, <<32>>,
     EventPrefix \o <<97>>, EventPrefix \o <<32, 98, 13>>,
     DataPrefix \o <<97>>, <<32>> \o DataPrefix \o <<32, 98>>, DataPrefix,
     IdPrefix \o <<97>>, IdPrefix \o <<98>>,
     <<114, 101, 116, 114, 121, 58, 49>>, <<97>>}
SseInputs == UNION {[1..n -> SseLines] : n \in 0..MaxLines}

\* one call of parseSseEvents on the text of the given lines
ParseCall(lines) ==
    /\ running = Idle
    /\ lastCall = NoCall
    /\ lastCall' = [fn |-> "parseSseEvents", lines |-> lines,
                    sseData |-> join(lines, NewLine),
                    events |-> parseSseEvents(join(lines, NewLine))]
    /\ UNCHANGED <<listening, optVars, running, exVars, tunVars, requestId, connectId,
                   idUses, contentType, sseMessages, display, lastFeed, lastCodec>>

\* the deliveries a stream is cut into: up to MaxDeliveryLines lines, the last
\* one left open, closed by a newline, or followed by a newline and an empty line
MaxDeliveryLines == 2
DeliveryLines ==
    {<<>>, <<32>>, DataPrefix \o <<97>>, <<32>> \o DataPrefix \o <<32, 98>>,
     EventPrefix \o <<97>>, IdPrefix \o <<97>>, <<114, 101, 116, 114, 121, 58, 49>>}
Deliveries ==
    {join(lines, NewLine) \o closing :
        lines \in UNION {[1..n -> DeliveryLines] : n \in 0..MaxDeliveryLines},
        closing \in {<<>>, <<10>>, <<10, 10>>}}

\* parseSseEvents on two deliveries, and on the text of both in one piece
ParsePairCall(first, second) ==
    /\ running = Idle
    /\ lastCall = NoCall
    /\ lastCall' = [fn |-> "parseSseEvents twice", first |-> first, second |-> second,
                    firstEvents |-> parseSseEvents(first),
                    secondEvents |-> parseSseEvents(second),
                    events |-> parseSseEvents(first \o second)]
    /\ UNCHANGED <<listening, optVars, running, exVars, tunVars, requestId, connectId,
                   idUses, contentType, sseMessages, display, lastFeed, lastCodec>>

(* ---------- handleRequest, lines 95-106: the upstream options ---------- *)
\* req.headers and options.headers: the entries <<name, value>> of the object,
\* names in lower case as IncomingMessage gives them, each name once
Entry(name, value) == <<name, value>>
HasHeader(headers, name) == \E i \in 1..Len(headers) : headers[i][1] = name

\* delete options.headers.host
DeleteHost(headers) == SelectSeq(headers, LAMBDA entry : entry[1] # "host")

\* a host that is only filled in when the client sent none
SetHost_KeepClient(headers, value) ==
    IF HasHeader(headers, "host") THEN headers ELSE Append(headers, Entry("host", value))

\* lines 104-105: delete headers.host; headers.host = value
SetHost(headers, value) == Append(DeleteHost(headers), Entry("host", value))

\* `${this.options.remoteHost}:${this.options.remotePort}`
HostOf(remoteHost, remotePort) == remoteHost \o ":" \o ToString(remotePort)

\* lines 95-106: const options = {...}, then the host rewrite
RequestOptions(request, remoteHost, remotePort) ==
    [hostname |-> remoteHost,
     port |-> remotePort,
     path |-> request.url,
     method |-> request.method,
     headers |-> SetHost(request.headers, HostOf(remoteHost, remotePort))]

\* the requests and upstreams the options are built for
RemoteHosts == {"api.anthropic.com", "localhost"}
RemotePorts == {443, 8080}
Methods == {"GET", "POST"}
Urls == {"/", "/v1/messages?beta=true"}
HeaderChoices ==
    [host : {"", "localhost:3000", "api.anthropic.com:443"},
     accept : {"", "*/*"},
     connection : {"", "keep-alive"},
     xApiKey : {"", "sk-1"}]
\* the headers of a choice, in the order the client sent them
HeadersOf(choice) ==
    (IF choice.accept # "" THEN <<Entry("accept", choice.accept)>> ELSE <<>>)
    \o (IF choice.host # "" THEN <<Entry("host", choice.host)>> ELSE <<>>)
    \o (IF choice.connection # "" THEN <<Entry("connection", choice.connection)>> ELSE <<>>)
    \o (IF choice.xApiKey # "" THEN <<Entry("x-api-key", choice.xApiKey)>> ELSE <<>>)
Requests ==
    {[method |-> method, url |-> url, headers |-> HeadersOf(choice)] :
        method \in Methods, url \in Urls, choice \in HeaderChoices}

\* the options handleRequest builds for one request before it calls http.request
RequestOptionsCall(request, remoteHost, remotePort) ==
    /\ running = Idle
    /\ lastCall = NoCall
    /\ lastCall' = [fn |-> "handleRequest", request |-> request,
                    remoteHost |-> remoteHost, remotePort |-> remotePort,
                    options |-> RequestOptions(request, remoteHost, remotePort)]
    /\ UNCHANGED <<listening, optVars, running, exVars, tunVars, requestId, connectId,
                   idUses, contentType, sseMessages, display, lastFeed, lastCodec>>

(* ------------- body-processing functions called directly -------------- *)
\* the texts, content items and messages the extraction is tried on
MaxItems == 2
MaxMessages == 2
LongText == [i \in 1..(ReminderLimit + 1) |-> 97]
Reminder(text) == OpenTag \o text \o CloseTag
ExtractTexts ==
    {<<81>>, <<32>>, <<72, 101, 108>>,
     Reminder(<<82>>) \o <<81>>,
     Reminder(<<32, 82, 32>>),
     Reminder(<<82>>) \o Reminder(<<83>>) \o <<32, 81>>,
     Reminder(LongText) \o <<81>>,
     OpenTag \o <<81>>,
     LongText,
     ContentsOf \o <<32, 102, 58, 10>> \o Fence \o <<97>> \o Fence,
     ContentsOf \o <<32, 102, 10>> \o Fence \o <<97>> \o Fence,
     <<49, 8594, 97, 10, 50, 8594, 98>>}
ExtractItems ==
    {Item("text", String(text), Undefined) : text \in ExtractTexts}
    \cup {Item("tool_result", Undefined, String(text)) :
              text \in {<<81>>, LongText, <<49, 8594, 97, 10, 50, 8594, 98>>}}
    \cup {Item("tool_result", Undefined, Array(<<Item("text", String(<<81>>), Undefined)>>)),
          Item("text", Undefined, Undefined),
          Item("tool_use", Undefined, Undefined),
          Null,
          String(<<81>>)}
Contents ==
    UNION {[1..n -> ExtractItems] : n \in 0..MaxItems}
PlainMessages ==
    {Message("user", String(<<81>>)), Message("assistant", String(<<82>>)),
     Message("assistant", String(LongText)),
     Message("assistant", Array(<<Item("text", String(<<82>>), Undefined)>>)),
     Message("assistant", Array(<<Item("tool_use", Undefined, Undefined),
                                  Item("text", String(<<82>>), Undefined)>>)),
     Message("system", String(<<81>>)),
     Null}
ExtractMessages ==
    PlainMessages
    \cup {Message("user", String(text)) : text \in ExtractTexts}
    \cup {Message("user", Array(content)) : content \in Contents}
\* lists of messages with at most one message outside PlainMessages
MessageLists ==
    UNION {{messages \in [1..n -> ExtractMessages] :
               Cardinality({i \in 1..n : messages[i] \notin PlainMessages}) <= 1} :
           n \in 0..MaxMessages}
Bodies ==
    {NotJson, Json(Null), Json(String(<<81>>)), Json(Data(Undefined, Undefined)),
     Json(Data(String(<<81>>), String(<<81>>)))}
    \cup {Json(Data(Array(messages), Undefined)) : messages \in MessageLists}
    \cup {Json(Data(Undefined, Array(content))) : content \in Contents}

\* one call of extractChatMessage, as logRequestBody (role 'user') and
\* logResponseBody (role 'assistant') make it in chat mode; the call returns
\* to its caller whether or not the body of the try threw
ExtractCall(bodyStr, role) ==
    /\ running = Idle
    /\ chatMode
    /\ lastCall = NoCall
    /\ lastCall' = [fn |-> "extractChatMessage", bodyStr |-> bodyStr, role |-> role,
                    out |-> extractChatMessage(bodyStr, role).out,
                    caught |-> extractChatMessage(bodyStr, role).threw,
                    returned |-> TRUE]
    /\ UNCHANGED <<listening, optVars, running, exVars, tunVars, requestId, connectId,
                   idUses, contentType, sseMessages, display, lastFeed, lastCodec>>

\* one call of processSseStream(id, body) on a body holding the events given
ProcessSseStreamCall(id, events) ==
    /\ CanRun
    /\ lastFeed.calls < MaxFeeds
    /\ LET fed == processSseStream(sseMessages, id, events)
       IN  /\ sseMessages' = fed.map
           /\ lastFeed' = [calls |-> lastFeed.calls + 1, id |-> id, events |-> events,
                           before |-> sseMessages, complete |-> fed.complete,
                           mergedContent |-> fed.mergedContent, out |-> fed.out]
    /\ UNCHANGED <<listening, optVars, running, exVars, tunVars, requestId, connectId,
                   idUses, contentType, display, lastCodec, lastCall>>

\* one call of logRequestBody / logResponseBody on a body: getFullBody and
\* formatBody on that body, and the calls that receive their results
CodecCall(body, contentEncoding) ==
    /\ CanRun
    /\ lastCodec = NoCodec
    /\ lastCodec' = [fn |-> "getFullBody, formatBody", body |-> body,
                     contentEncoding |-> contentEncoding,
                     full |-> getFullBody(body, contentEncoding),
                     formatted |-> formatBody(body, contentEncoding),
                     requestCalls |-> logRequestBodyCalls(body, contentEncoding),
                     responseCalls |-> logResponseBodyCalls(body, contentEncoding)]
    /\ UNCHANGED <<listening, optVars, running, exVars, tunVars, requestId, connectId,
                   idUses, contentType, sseMessages, display, lastFeed, lastCall>>

(* ------------------- handleConnect: lines 183-221 ---------------------- *)
\* a socket as the proxy sees it: "open"; "wEnded" after the proxy's end()
\* (FIN sent, still readable: half-closed); "rEnded" after the peer's FIN
\* (still writable, only with allowHalfOpen); "closed" once both directions
\* are done or the socket was destroyed by an error
Writable(s) == s \in {"open", "rEnded"}
Readable(s) == s \in {"open", "wEnded"}

\* socket.end()
SockEnd(s) == CASE s = "open" -> "wEnded"
                [] s = "rEnded" -> "closed"
                [] OTHER -> s

\* the peer's FIN arrives ('end'); without allowHalfOpen the socket ends itself
SockPeerEnd(s, allowHalfOpen) ==
    CASE s = "open" -> IF allowHalfOpen THEN "rEnded" ELSE "closed"
      [] s = "wEnded" -> "closed"
      [] OTHER -> s

\* socket.write(data): lost on a socket that is no longer writable
SockWrite(s, out, data) == IF Writable(s) THEN Append(out, data) ELSE out

\* the CONNECT targets tried: the value of req.url split at ':'
Authorities == {<<"example.com", "443">>, <<"example.com">>, <<"example.com", "99999">>}

\* parseConnectUrl: { hostname: parts[0], port: parts[1] || '443' }
parseConnectUrl(parts) ==
    [hostname |-> parts[1],
     port |-> IF Len(parts) >= 2 /\ parts[2] # "" THEN parts[2] ELSE DefaultConnectPort]

\* parseInt(port) on the port strings of Authorities
parseInt(str) == CASE str = "443" -> 443
                   [] str = "99999" -> 99999
                   [] OTHER -> -1

\* net.createConnection validates the port and throws ERR_SOCKET_BAD_PORT
\* synchronously when it is not an integer in 0..65535
PortAccepted(port) == port >= 0 /\ port <= 65535

\* server.on('connect'): handleConnect up to the return of net.createConnection
HandleConnect(t, id, authority, hd) ==
    /\ CanRun
    /\ tunnel[t] = "none"
    /\ \A d \in Tunnels : d < t => tunnel[d] # "none"
    /\ connectId' = [connectId EXCEPT ![t] = id]
    /\ UNCHANGED <<requestId, idUses, contentType, sseMessages, display, lastFeed, lastCodec, lastCall>>
    /\ IF PortAccepted(parseInt(parseConnectUrl(authority).port))
       THEN /\ tunnel' = [tunnel EXCEPT ![t] = "connecting"]
            /\ head' = [head EXCEPT ![t] = hd]
            /\ UNCHANGED listening
       ELSE /\ Crash
            /\ UNCHANGED <<tunnel, head>>
    /\ UNCHANGED <<optVars, running, exVars, clientSocket, serverSocket, clientOut,
                   serverOut, clientIn, serverIn>>

\* a connect callback that pipes without replying first
ConnectCallback_NoReply(t) ==
    /\ CanRun
    /\ tunnel[t] = "connecting"
    /\ tunnel' = [tunnel EXCEPT ![t] = "established"]
    /\ serverOut' = [serverOut EXCEPT ![t] = SockWrite(serverSocket[t], @, head[t])]
    /\ UNCHANGED <<listening, optVars, logVars, running, exVars, clientSocket, serverSocket,
                   clientOut, clientIn, serverIn, head>>

\* the connect callback of net.createConnection: reply, forward head, pipe
ConnectCallback(t) ==
    /\ CanRun
    /\ tunnel[t] = "connecting"
    /\ tunnel' = [tunnel EXCEPT ![t] = "established"]
    /\ clientOut' = [clientOut EXCEPT ![t] = SockWrite(clientSocket[t], @, ConnectionEstablished)]
    /\ serverOut' = [serverOut EXCEPT ![t] = SockWrite(serverSocket[t], @, head[t])]
    /\ UNCHANGED <<listening, optVars, logVars, running, exVars, clientSocket, serverSocket,
                   clientIn, serverIn, head>>

\* an error listener that only logs
ServerSocketOnError_LogOnly(t) ==
    /\ CanRun
    /\ tunnel[t] \in {"connecting", "established"}
    /\ serverSocket[t] # "closed"
    /\ tunnel' = [tunnel EXCEPT ![t] = IF @ = "connecting" THEN "failed" ELSE @]
    /\ serverSocket' = [serverSocket EXCEPT ![t] = "closed"]
    /\ UNCHANGED <<listening, optVars, logVars, running, exVars, clientSocket, clientOut, serverOut,
                   clientIn, serverIn, head>>

\* serverSocket.on('error'): clientSocket.end(); while connecting the error is
\* the failure of the connect attempt
ServerSocketOnError(t) ==
    /\ CanRun
    /\ tunnel[t] \in {"connecting", "established"}
    /\ serverSocket[t] # "closed"
    /\ tunnel' = [tunnel EXCEPT ![t] = IF @ = "connecting" THEN "failed" ELSE @]
    /\ serverSocket' = [serverSocket EXCEPT ![t] = "closed"]
    /\ clientSocket' = [clientSocket EXCEPT ![t] = SockEnd(@)]
    /\ UNCHANGED <<listening, optVars, logVars, running, exVars, clientOut, serverOut,
                   clientIn, serverIn, head>>

\* clientSocket.on('error'): serverSocket.end()
ClientSocketOnError(t) ==
    /\ CanRun
    /\ tunnel[t] # "none"
    /\ clientSocket[t] # "closed"
    /\ clientSocket' = [clientSocket EXCEPT ![t] = "closed"]
    /\ serverSocket' = [serverSocket EXCEPT ![t] = SockEnd(@)]
    /\ UNCHANGED <<listening, optVars, logVars, running, exVars, tunnel, clientOut, serverOut,
                   clientIn, serverIn, head>>

\* clientSocket.pipe(serverSocket): a chunk read from the client
ClientSocketOnData(t, c) ==
    /\ CanRun
    /\ tunnel[t] = "established"
    /\ Readable(clientSocket[t])
    /\ Len(clientIn[t]) < MaxChunks
    /\ clientIn' = [clientIn EXCEPT ![t] = Append(@, c)]
    /\ serverOut' = [serverOut EXCEPT ![t] = SockWrite(serverSocket[t], @, c)]
    /\ UNCHANGED <<listening, optVars, logVars, running, exVars, tunnel, clientSocket, serverSocket,
                   clientOut, serverIn, head>>

\* serverSocket.pipe(clientSocket): a chunk read from the server
ServerSocketOnData(t, c) ==
    /\ CanRun
    /\ tunnel[t] = "established"
    /\ Readable(serverSocket[t])
    /\ Len(serverIn[t]) < MaxChunks
    /\ serverIn' = [serverIn EXCEPT ![t] = Append(@, c)]
    /\ clientOut' = [clientOut EXCEPT ![t] = SockWrite(clientSocket[t], @, c)]
    /\ UNCHANGED <<listening, optVars, logVars, running, exVars, tunnel, clientSocket, serverSocket,
                   serverOut, clientIn, head>>

\* clientSocket.pipe(serverSocket): the client's FIN ends the server socket
\* (the http server's sockets are created with allowHalfOpen)
ClientSocketOnEnd(t) ==
    /\ CanRun
    /\ tunnel[t] = "established"
    /\ Readable(clientSocket[t])
    /\ clientSocket' = [clientSocket EXCEPT ![t] = SockPeerEnd(@, TRUE)]
    /\ serverSocket' = [serverSocket EXCEPT ![t] = SockEnd(@)]
    /\ UNCHANGED <<listening, optVars, logVars, running, exVars, tunnel, clientOut, serverOut,
                   clientIn, serverIn, head>>

\* serverSocket.pipe(clientSocket): the server's FIN ends the client socket
ServerSocketOnEnd(t) ==
    /\ CanRun
    /\ tunnel[t] = "established"
    /\ Readable(serverSocket[t])
    /\ serverSocket' = [serverSocket EXCEPT ![t] = SockPeerEnd(@, FALSE)]
    /\ clientSocket' = [clientSocket EXCEPT ![t] = SockEnd(@)]
    /\ UNCHANGED <<listening, optVars, logVars, running, exVars, tunnel, clientOut, serverOut,
                   clientIn, serverIn, head>>

(* --------------------------- specification ----------------------------- *)
Init ==
    /\ listening = TRUE
    /\ logBody \in BOOLEAN
    /\ chatMode \in BOOLEAN
    /\ running = Idle
    /\ req = [e \in Exchanges |-> "none"]
    /\ reqRead = [e \in Exchanges |-> <<>>]
    /\ requestBody = [e \in Exchanges |-> <<>>]
    /\ proxyReq = [e \in Exchanges |-> "none"]
    /\ proxyReqDestroyed = [e \in Exchanges |-> FALSE]
    /\ proxyReqWritten = [e \in Exchanges |-> <<>>]
    /\ upstream = [e \in Exchanges |-> "none"]
    /\ reqErrorQueued = [e \in Exchanges |-> FALSE]
    /\ resErrorQueued = [e \in Exchanges |-> FALSE]
    /\ proxyResRead = [e \in Exchanges |-> <<>>]
    /\ responseBody = [e \in Exchanges |-> <<>>]
    /\ resOut = [e \in Exchanges |-> <<>>]
    /\ reqLogged = [e \in Exchanges |-> <<>>]
    /\ resLogged = [e \in Exchanges |-> <<>>]
    /\ upstreamError = [e \in Exchanges |-> "none"]
    /\ tunnel = [t \in Tunnels |-> "none"]
    /\ clientSocket = [t \in Tunnels |-> "open"]
    /\ serverSocket = [t \in Tunnels |-> "open"]
    /\ clientOut = [t \in Tunnels |-> <<>>]
    /\ serverOut = [t \in Tunnels |-> <<>>]
    /\ clientIn = [t \in Tunnels |-> <<>>]
    /\ serverIn = [t \in Tunnels |-> <<>>]
    /\ head = [t \in Tunnels |-> NoData]
    /\ mergeSse \in BOOLEAN
    /\ requestId = [e \in Exchanges |-> NoId]
    /\ connectId = [t \in Tunnels |-> NoId]
    /\ idUses = [e \in Exchanges |-> {}]
    /\ contentType = [e \in Exchanges |-> ""]
    /\ sseMessages = [id \in RequestIds |-> NoEntry]
    /\ display = [e \in Exchanges |-> <<>>]
    /\ lastFeed = NoFeed
    /\ lastCodec = NoCodec
    /\ verbose \in BOOLEAN
    /\ lastCall = NoCall

\* the steps of one exchange, for the identifiers Math.random may return and
\* the content types the upstream may answer with
ExchangeStepOver(e, ids, ctypes) ==
    \/ \E id \in ids : HandleRequest(e, id)
    \/ ReqOnData(e, Payload(e, "request", Len(reqRead[e]) + 1))
    \/ ReqOnEnd(e)
    \/ ReqOnError(e)
    \/ ProxyReqOnError(e)
    \/ \E status \in UpstreamStatus, ctype \in ctypes : HandleResponse(e, status, ctype)
    \/ ProxyResOnData(e, Payload(e, "response", Len(proxyResRead[e]) + 1))
    \/ ProxyResOnEnd(e)
    \/ ProxyResOnError(e)
    \/ \E alsoReq \in BOOLEAN : UpstreamFail(e, alsoReq)

ExchangeStep(e) == ExchangeStepOver(e, RequestIds, ContentTypes)

TunnelStep(t) ==
    \/ \E id \in RequestIds, authority \in Authorities, hd \in {NoData, Payload(t, "head", 1)} :
          HandleConnect(t, id, authority, hd)
    \/ ConnectCallback(t)
    \/ ServerSocketOnError(t)
    \/ ClientSocketOnError(t)
    \/ ClientSocketOnData(t, Payload(t, "client", Len(clientIn[t]) + 1))
    \/ ServerSocketOnData(t, Payload(t, "server", Len(serverIn[t]) + 1))
    \/ ClientSocketOnEnd(t)
    \/ ServerSocketOnEnd(t)

Next ==
    \/ \E e \in Exchanges : ExchangeStep(e)
    \/ FinishInspect
    \/ \E t \in Tunnels : TunnelStep(t)

Spec == Init /\ [][Next]_vars

\* The exchanges and the tunnels share no state but the process itself
\* (listening, running), so each side is also checked on its own.

\* the identifier of exchange e when all draws of Math.random differ
DistinctId(e) == CHOOSE id \in RequestIds : (id = "k3f9x0a1b") <=> (e = 1)

\* the proxied exchanges alone, on the forwarding path: distinct identifiers,
\* responses that are no event streams
HttpInit == Init /\ ~mergeSse /\ ~verbose
HttpNext ==
    \/ \E e \in Exchanges : ExchangeStepOver(e, {DistinctId(e)}, {"application/json"})
    \/ FinishInspect

HttpSpec == HttpInit /\ [][HttpNext]_vars

\* the exchanges, and the acceptance of CONNECT requests beside them
ServerNext ==
    \/ HttpNext
    \/ \E t \in Tunnels, authority \in Authorities :
          HandleConnect(t, DistinctId(MaxExchanges), authority, Payload(t, "head", 1))

ServerSpec == HttpInit /\ [][ServerNext]_vars

\* the CONNECT side alone
TunnelNext == \E t \in Tunnels : TunnelStep(t)

TunnelSpec == HttpInit /\ [][TunnelNext]_vars

\* the exchanges on the body-processing path: any identifier, event streams
\* and other responses, requests without a body, clients that stay
SseStep(e) ==
    \/ \E id \in RequestIds : HandleRequest(e, id)
    \/ ReqOnEnd(e)
    \/ ProxyReqOnError(e)
    \/ \E status \in UpstreamStatus, ctype \in ContentTypes : HandleResponse(e, status, ctype)
    \/ ProxyResOnData(e, Payload(e, "response", Len(proxyResRead[e]) + 1))
    \/ ProxyResOnEnd(e)
    \/ ProxyResOnError(e)
    \/ \E alsoReq \in BOOLEAN : UpstreamFail(e, alsoReq)

SseNext ==
    \/ \E e \in Exchanges : SseStep(e)
    \/ FinishInspect

SseInit == Init /\ ~verbose
SseSpec == SseInit /\ [][SseNext]_vars

\* processSseStream as a function of the map and the batch, fed under one
\* identifier, in chat mode and in merge mode
FeedInit == Init /\ mergeSse /\ (logBody # chatMode) /\ ~verbose
FeedNext == \E events \in Batches : ProcessSseStreamCall(DistinctId(1), events)
FeedSpec == FeedInit /\ [][FeedNext]_vars

\* getFullBody and formatBody as functions of the body and its encoding
CodecInit == Init /\ chatMode /\ ~logBody /\ ~mergeSse /\ ~verbose
CodecNext ==
    \E body \in Buffers \cup LongBodies \cup EdgeBodies, contentEncoding \in ContentEncodings :
        CodecCall(body, contentEncoding)
CodecSpec == CodecInit /\ [][CodecNext]_vars

\* parseSseEvents on its own
ParseNext ==
    /\ lastCall = NoCall
    /\ \/ \E lines \in SseInputs : ParseCall(lines)
       \/ \E first \in Deliveries, second \in Deliveries : ParsePairCall(first, second)
ParseSpec == CodecInit /\ [][ParseNext]_vars

\* the options of the upstream request on their own
OptionsNext ==
    /\ lastCall = NoCall
    /\ \E request \in Requests, remoteHost \in RemoteHosts, remotePort \in RemotePorts :
          RequestOptionsCall(request, remoteHost, remotePort)
OptionsSpec == HttpInit /\ [][OptionsNext]_vars

\* extractChatMessage on its own: chat mode, verbose or not
ExtractInit == Init /\ chatMode /\ ~logBody /\ ~mergeSse
ExtractNext ==
    /\ lastCall = NoCall
    /\ \E bodyStr \in Bodies, role \in {"user", "assistant"} : ExtractCall(bodyStr, role)
ExtractSpec == ExtractInit /\ [][ExtractNext]_vars

\* no fairness is assumed of the peers of a tunnel: nothing in the proxy makes
\* a client or a server send, close or fail
\* a connect attempt ends: it succeeds or it fails
ConnectAttemptEnds(t) ==
    tunnel[t] = "connecting" /\ (ConnectCallback(t) \/ ServerSocketOnError(t))

TunnelFairSpec == TunnelSpec /\ \A t \in Tunnels : WF_vars(ConnectAttemptEnds(t))

\* Node's event loop delivers every queued 'error' event to its listener, and
\* a synchronous body-processing call returns
HttpFairness ==
    /\ \A e \in Exchanges : WF_vars(ProxyReqOnError(e)) /\ WF_vars(ProxyResOnError(e))
    /\ WF_vars(FinishInspect)

HttpFairSpec == HttpSpec /\ HttpFairness

(* ------------------------------ vocabulary ----------------------------- *)
\* the client response is ended by the proxy, or closed with the process
ClientResponseClosed(e) == WritableEnded(resOut[e]) \/ ~listening

\* the upstream request is destroyed, or closed with its socket or the process
UpstreamRequestClosed(e) == proxyReqDestroyed[e] \/ upstream[e] = "failed" \/ ~listening

\* the status lines written to the client response
StatusLines(out) == {i \in 1..Len(out) : out[i].kind = "head"}

(* ================================ claims =============================== *)

\* C1: in every exchange the chunks handed to the upstream request are exactly
\* the chunks read from the client, in the same order, nothing added and
\* nothing dropped, with body inspection on or off.
C1_RequestForwarding ==
    \A e \in Exchanges : proxyReqWritten[e] = reqRead[e]

\* a body of two chunks was read and forwarded while it was also accumulated
C1_Witness ==
    \E e \in Exchanges :
        /\ Inspect
        /\ req[e] = "ended"
        /\ Len(reqRead[e]) >= 2
        /\ requestBody[e] = reqRead[e]
        /\ proxyReqWritten[e] = reqRead[e]

\* C2: the chunks written to the client are the chunks received from upstream,
\* in the order received and unmodified, and the status line and headers are
\* the first thing written to the client response.
C2_ResponseOrder ==
    \A e \in Exchanges :
        /\ ChunksOf(resOut[e]) = proxyResRead[e]
        /\ resOut[e] # <<>> => resOut[e][1].kind = "head"

\* a response of two chunks was relayed and ended
C2_Witness ==
    \E e \in Exchanges :
        /\ upstream[e] = "complete"
        /\ Len(proxyResRead[e]) >= 2
        /\ WritableEnded(resOut[e])
        /\ ChunksOf(resOut[e]) = proxyResRead[e]

\* C3: forwarding never waits on inspection: while a body-processing call is
\* running, the 'data' callback of every exchange whose upstream response is
\* under way can run and write its chunk to the client.
C3_ForwardingNeverWaits ==
    \A e \in Exchanges :
        (running # Idle /\ upstream[e] = "responding" /\ Len(proxyResRead[e]) < MaxChunks)
            => ENABLED ProxyResOnData(e, Payload(e, "response", Len(proxyResRead[e]) + 1))

\* C7 as stated: an upstream request that fails before the headers went out is
\* answered with status 502 and the client response is ended.
C7_BadGateway502 ==
    \A e \in Exchanges :
        (upstreamError[e] = "beforeHeaders" /\ ~reqErrorQueued[e])
            => /\ \E i \in StatusLines(resOut[e]) : resOut[e][i].status = 502
               /\ WritableEnded(resOut[e])

\* C7, amended: an upstream request that fails before the headers went out is
\* answered with status 500 and the body 'Proxy Error', and the client
\* response is ended.
C7_ProxyError500 ==
    \A e \in Exchanges :
        (upstreamError[e] = "beforeHeaders" /\ ~reqErrorQueued[e])
            => resOut[e] = <<HeadItem(500), EndItem(ProxyErrorBody)>>

\* the upstream request failed before any response and its listener has run
C7_Witness ==
    \E e \in Exchanges :
        /\ upstreamError[e] = "beforeHeaders"
        /\ ~reqErrorQueued[e]
        /\ req[e] # "errored"
        /\ WritableEnded(resOut[e])

\* C8: after an upstream error that comes once the headers were written, the
\* client response is eventually ended (or closed), and it never carries a
\* second status line.
C8_TerminatedAfterHeaders ==
    \A e \in Exchanges :
        /\ (upstreamError[e] = "afterHeaders") ~> ClientResponseClosed(e)
        /\ [](upstreamError[e] = "afterHeaders" => Cardinality(StatusLines(resOut[e])) = 1)

\* the upstream leg failed in mid-response and the client response was ended
\* after the chunks relayed so far
C8_Witness ==
    \E e \in Exchanges :
        /\ upstreamError[e] = "afterHeaders"
        /\ Len(proxyResRead[e]) >= 1
        /\ resOut[e][Len(resOut[e])] = EndItem(NoData)

\* C9: a socket error on the client request, the upstream request or the
\* upstream response leads to the teardown of both legs: eventually the
\* upstream request is closed or destroyed and the client response is ended
\* or closed.
C9_BothLegsTornDown ==
    \A e \in Exchanges :
        (req[e] = "errored" \/ upstreamError[e] # "none")
            ~> (UpstreamRequestClosed(e) /\ ClientResponseClosed(e))

\* the client request failed, the upstream request was destroyed and the
\* client response ended
C9_Witness ==
    \E e \in Exchanges :
        /\ req[e] = "errored"
        /\ proxyReqDestroyed[e]
        /\ WritableEnded(resOut[e])

C5_OpaqueTunnel ==
    \A t \in Tunnels :
        /\ clientOut[t] # <<>> => clientOut[t][1] = ConnectionEstablished
        /\ serverOut[t] # <<>> => serverOut[t][1] = head[t]
        /\ clientOut[t] # <<>> =>
              /\ Len(clientOut[t]) - 1 <= Len(serverIn[t])
              /\ Tail(clientOut[t]) = SubSeq(serverIn[t], 1, Len(clientOut[t]) - 1)
        /\ serverOut[t] # <<>> =>
              /\ Len(serverOut[t]) - 1 <= Len(clientIn[t])
              /\ Tail(serverOut[t]) = SubSeq(clientIn[t], 1, Len(serverOut[t]) - 1)
        /\ (tunnel[t] = "established" /\ Writable(clientSocket[t]))
              => clientOut[t] = <<ConnectionEstablished>> \o serverIn[t]
        /\ (tunnel[t] = "established" /\ Writable(serverSocket[t]))
              => serverOut[t] = <<head[t]>> \o clientIn[t]
        /\ \A e \in Exchanges :
              /\ requestBody[e] = <<>> /\ responseBody[e] = <<>>
              /\ reqLogged[e] = <<>> /\ resLogged[e] = <<>>

\* an established tunnel has relayed two chunks in each direction
C5_Witness ==
    \E t \in Tunnels :
        /\ tunnel[t] = "established"
        /\ Len(clientIn[t]) >= 2 /\ Len(serverIn[t]) >= 2
        /\ clientOut[t] = <<ConnectionEstablished>> \o serverIn[t]
        /\ serverOut[t] = <<head[t]>> \o clientIn[t]

\* a socket of a tunnel is closed: both directions are done, or it was
\* destroyed, or the process is gone
SocketClosed(s) == s = "closed" \/ ~listening

\* C6: in an established tunnel, once either socket has closed or failed the
\* other socket is eventually closed too; no side stays open for ever after
\* the other side has gone.
C6_NoHalfOpenTunnel ==
    \A t \in Tunnels :
        /\ (tunnel[t] = "established" /\ SocketClosed(clientSocket[t]))
              ~> SocketClosed(serverSocket[t])
        /\ (tunnel[t] = "established" /\ SocketClosed(serverSocket[t]))
              ~> SocketClosed(clientSocket[t])

\* the state of one exchange
ExchangeState(e) ==
    <<req[e], reqRead[e], requestBody[e], proxyReq[e], proxyReqDestroyed[e],
      proxyReqWritten[e], upstream[e], reqErrorQueued[e], resErrorQueued[e],
      proxyResRead[e], responseBody[e], resOut[e], reqLogged[e], resLogged[e]>>

\* C10: no step stops the listening server, and no step changes the state of
\* two exchanges at once: what happens to one exchange or one tunnel leaves
\* the server up and every other exchange as it was.
C10_FailuresContained ==
    [][/\ listening'
       /\ \A d, e \in Exchanges :
             d # e => (ExchangeState(d)' = ExchangeState(d) \/ ExchangeState(e)' = ExchangeState(e))
      ]_vars

(* ---------------- identifiers and stream reassembly -------------------- *)
\* the exchange was accepted
Accepted(e) == requestId[e] # NoId

\* C11: any two distinct exchanges of the proxy carry different identifiers.
C11_DistinctIdentifiers ==
    \A d, e \in Exchanges :
        (d # e /\ Accepted(d) /\ Accepted(e)) => requestId[d] # requestId[e]

\* C12: the identifier of an exchange is assigned once, before the upstream
\* request is opened and before anything is forwarded, and handleRequest,
\* handleResponse and every body-processing call of the exchange work with
\* that one value.
C12_StableIdentifier ==
    \A e \in Exchanges :
        /\ ~Accepted(e) =>
              /\ proxyReq[e] = "none" /\ upstream[e] = "none"
              /\ proxyReqWritten[e] = <<>> /\ resOut[e] = <<>>
              /\ idUses[e] = {} /\ display[e] = <<>>
        /\ \A u \in idUses[e] : u.id = requestId[e]
        /\ \A i \in 1..Len(display[e]) : display[e][i].id = requestId[e]

\* an exchange went through handleRequest, handleResponse and both
\* body-processing calls
C12_Witness ==
    \E e \in Exchanges :
        /\ {u.site : u \in idUses[e]} =
              {"handleRequest", "handleResponse", "logRequestBody", "logResponseBody"}
        /\ Len(proxyReqWritten[e]) >= 1
        /\ WritableEnded(resOut[e])

\* the exchange has ended: its upstream response ended or failed, the client
\* response is closed and no handler of it is on the stack
ExchangeEnded(e) ==
    /\ upstream[e] \in {"complete", "failed"}
    /\ WritableEnded(resOut[e])
    /\ running = Idle

\* C13: once an exchange has ended the sseMessages map holds no entry under
\* its identifier (an identifier no other exchange shares).
C13_EvictedAtExchangeEnd ==
    \A e \in Exchanges :
        (ExchangeEnded(e) /\ \A d \in Exchanges : d # e => requestId[d] # requestId[e])
            => ~sseMessages[requestId[e]].has

\* the terminal events of the stream protocol
TerminalEvent(event) ==
    \/ event.event \in {"message_stop", "content_block_stop"}
    \/ event.event = "message_delta" /\ event.data.stopReason

\* t1 ++ ... ++ tn: the texts of the content_block_delta events, in order,
\* an event without readable text counting as the empty text
RECURSIVE DeltaTextsOf(_)
DeltaTextsOf(events) ==
    IF events = <<>> THEN <<>>
    ELSE (IF events[1].event = "content_block_delta" /\ events[1].data.json
          THEN events[1].data.text ELSE <<>>) \o DeltaTextsOf(Tail(events))

\* content_block_delta events followed by one terminal event
DeltasThenTerminal(events) ==
    /\ Len(events) >= 1
    /\ \A i \in 1..(Len(events) - 1) : events[i].event = "content_block_delta"
    /\ TerminalEvent(events[Len(events)])

\* the stream the last feed completed or continued: what was stored under
\* the identifier, then the batch
FedStream == lastFeed.before[lastFeed.id].events \o lastFeed.events
FedBefore == lastFeed.before[lastFeed.id]
Messages(out) == {i \in 1..Len(out) : out[i].kind = "message"}

\* C14: when the stream fed under an identifier is content_block_delta
\* events followed by a terminal event, the feed that brings the terminal
\* event reports completion, its merged text is the texts of the deltas in
\* arrival order, that text is what it shows, and the entry is deleted.
C14_MergedTextAtCompletion ==
    (lastFeed.calls > 0 /\ DeltasThenTerminal(FedStream))
        => /\ lastFeed.complete
           /\ lastFeed.mergedContent = DeltaTextsOf(FedStream)
           /\ \A i \in Messages(lastFeed.out) :
                 lastFeed.out[i].text =
                    IF DeltaTextsOf(FedStream) # <<>> THEN DeltaTextsOf(FedStream)
                    ELSE EmptyMessage
           /\ DeltaTextsOf(FedStream) # <<>> => Messages(lastFeed.out) # {}
           /\ ~sseMessages[lastFeed.id].has

\* two deltas arrived in one feed and the terminal event in the next
C14_Witness ==
    /\ lastFeed.calls = 2
    /\ Len(FedBefore.events) = 2
    /\ DeltasThenTerminal(FedStream)
    /\ Len(DeltaTextsOf(FedStream)) = 2
    /\ DeltaTextsOf(FedStream)[1] # DeltaTextsOf(FedStream)[2]
    /\ lastFeed.complete

\* C15: a feed whose batch has no terminal event reports not-complete and
\* keeps the entry under the same identifier, the stored events and text
\* followed by the new ones; a feed that finds an entry starts no new message.
C15_PartialFeedKeepsState ==
    (lastFeed.calls > 0 /\ \A i \in 1..Len(lastFeed.events) : ~TerminalEvent(lastFeed.events[i]))
        => /\ ~lastFeed.complete
           /\ Messages(lastFeed.out) = {}
           /\ sseMessages[lastFeed.id] =
                 SseMessage(lastFeed.id, FedBefore.events \o lastFeed.events,
                            FedBefore.mergedContent \o DeltaTextsOf(lastFeed.events))
           /\ FedBefore.has =>
                 \A i \in 1..Len(lastFeed.out) : lastFeed.out[i].kind \notin {"started", "prefix"}

\* a second feed without terminal event extended the entry of the first
C15_Witness ==
    /\ lastFeed.calls = 2
    /\ FedBefore.has /\ FedBefore.mergedContent # <<>>
    /\ DeltaTextsOf(lastFeed.events) # <<>>
    /\ sseMessages[lastFeed.id].has
    /\ Len(sseMessages[lastFeed.id].events) > Len(FedBefore.events)

\* C16: a feed is complete if and only if its own batch holds a
\* message_stop, a content_block_stop, or a message_delta whose data
\* contains 'stop_reason'; a complete feed deletes the entry, any other
\* keeps it.
C16_CompletionRule ==
    lastFeed.calls > 0
        => /\ lastFeed.complete <=>
                 \E i \in 1..Len(lastFeed.events) : TerminalEvent(lastFeed.events[i])
           /\ lastFeed.complete <=> ~sseMessages[lastFeed.id].has

\* a batch whose only message_delta has no stop_reason was fed on top of
\* stored events and found not complete
C16_Witness ==
    /\ lastFeed.calls = 2
    /\ FedBefore.has
    /\ \E i \in 1..Len(lastFeed.events) :
          lastFeed.events[i].event = "message_delta" /\ ~lastFeed.events[i].data.stopReason
    /\ ~lastFeed.complete

\* the batch holds a content_block_delta without readable text
HasUnreadableDelta(events) ==
    \E i \in 1..Len(events) :
        /\ events[i].event = "content_block_delta"
        /\ ~events[i].data.json \/ events[i].data.text = <<>>

\* C17: a content_block_delta whose data is no JSON, or has no text, adds
\* the empty text and stops nothing: the texts of the other deltas of the
\* batch are appended in order and the completion test runs as ever.
C17_UnreadableDeltaSkipped ==
    (lastFeed.calls > 0 /\ HasUnreadableDelta(lastFeed.events))
        => /\ lastFeed.mergedContent = FedBefore.mergedContent \o DeltaTextsOf(lastFeed.events)
           /\ lastFeed.complete <=>
                 \E i \in 1..Len(lastFeed.events) : TerminalEvent(lastFeed.events[i])

\* a delta with no JSON stood between a delta with text and a terminal event
C17_Witness ==
    /\ lastFeed.calls > 0
    /\ Len(lastFeed.events) = 3
    /\ lastFeed.events[1].event = "content_block_delta" /\ ~lastFeed.events[1].data.json
    /\ lastFeed.events[2].event = "content_block_delta" /\ lastFeed.events[2].data.text # <<>>
    /\ TerminalEvent(lastFeed.events[3])
    /\ lastFeed.mergedContent = lastFeed.events[2].data.text
    /\ lastFeed.complete

\* the exchanges whose response the text tokens come from
Origins(text) == {text[i][1] : i \in 1..Len(text)}

\* C18: the entry stored under an identifier, and the message shown for an
\* exchange, hold text of one exchange's response only.
C18_StateIsolated ==
    /\ \A id \in RequestIds : Cardinality(Origins(sseMessages[id].mergedContent)) <= 1
    /\ \A e \in Exchanges : \A i \in 1..Len(display[e]) :
          display[e][i].kind \in {"message", "delta"}
              => Origins(display[e][i].text) \subseteq {e}

\* C19: in chat mode the text of an event stream is shown as it arrives:
\* once a chunk has been read and its handler has returned, the chunk's
\* delta text has been handed to the console.
C19_IncrementalEmission ==
    \A e \in Exchanges :
        (chatMode /\ contentType[e] = EventStream /\ running = Idle)
            => \A k \in 1..Len(proxyResRead[e]) :
                  \E i \in 1..Len(display[e]) :
                      \E j \in 1..Len(display[e][i].text) :
                          display[e][i].text[j] = proxyResRead[e][k]

\* decompression with the named encoding fails on this body
DecompressionFails(body, contentEncoding) ==
    /\ toLowerCase(contentEncoding) \in {"gzip", "deflate", "br"}
    /\ body.coding # toLowerCase(contentEncoding)

\* C20: when decompression with the named content-encoding fails,
\* formatBody returns the marker with the byte length of the body and the
\* encoding as named, getFullBody returns the empty string, and both return.
C20_DecodingFailsClosed ==
    (lastCodec.fn # "" /\ DecompressionFails(lastCodec.body, lastCodec.contentEncoding))
        => /\ lastCodec.formatted =
                 DecompressionFailed(ByteLength(lastCodec.body), lastCodec.contentEncoding)
           /\ lastCodec.full = <<>>

\* plain text of two bytes arrived under content-encoding gzip
C20_Witness ==
    /\ lastCodec.fn # ""
    /\ lastCodec.body.coding = "plain"
    /\ Len(lastCodec.body.content) = 2
    /\ ~isBinaryData(lastCodec.body.content)
    /\ lastCodec.contentEncoding = "gzip"
    /\ lastCodec.formatted.kind = "decompression failed"
    /\ lastCodec.formatted.length = 2

(* ------------------------- decoding and extraction --------------------- *)
\* the body is the E-compressed form of its content, for the encoding named
CompressedAs(body, contentEncoding) ==
    \/ contentEncoding \in {"gzip", "deflate", "br"} /\ body.coding = contentEncoding
    \/ contentEncoding = "identity" /\ body.coding = "plain"

\* C21 as stated: for every buffer B and every encoding E of gzip, deflate,
\* br and identity, decoding the E-compressed form of B gives B back.
C21_DecodeInvertsCompress ==
    (lastCodec.fn # "" /\ CompressedAs(lastCodec.body, lastCodec.contentEncoding))
        => lastCodec.full = lastCodec.body.content

\* the bytes are UTF-8 text that isBinaryData lets through
IsText(bytes) == ~isBinaryData(bytes) /\ \A i \in 1..Len(bytes) : bytes[i] # 255

\* C21, amended: decoding the E-compressed form of B gives the text of B when
\* B is valid UTF-8 without a zero byte among its first 512 bytes, and the
\* empty string when B has such a zero byte.
C21_DecodeInvertsCompressOnText ==
    (lastCodec.fn # "" /\ CompressedAs(lastCodec.body, lastCodec.contentEncoding))
        => /\ IsText(lastCodec.body.content) => lastCodec.full = lastCodec.body.content
           /\ isBinaryData(lastCodec.body.content) => lastCodec.full = <<>>

\* a deflate stream of two characters was decoded
C21_Witness ==
    /\ lastCodec.fn # ""
    /\ lastCodec.body.coding = "deflate" /\ lastCodec.contentEncoding = "deflate"
    /\ Len(lastCodec.body.content) = 2
    /\ IsText(lastCodec.body.content)
    /\ lastCodec.full = lastCodec.body.content

\* the calls of body-processing that parse the string they are given
ParsingCalls == {"extractChatMessage", "formatCompactRequest"}

\* C22: in chat mode every call that parses a payload is given the full
\* decoded text, never the capped display form of formatBody.
C22_ExtractionGetsFullText ==
    (lastCodec.fn # "" /\ chatMode)
        => \A i \in 1..Len(lastCodec.requestCalls) :
              lastCodec.requestCalls[i].fn \in ParsingCalls
                  => lastCodec.requestCalls[i].arg = FormatText(lastCodec.full)

(* ------------------------ conversation turns --------------------------- *)
\* the lines of an extraction that are conversation turns
TurnKinds == {"user", "assistant", "assistant-previous", "system-reminder",
              "file", "tool-result"}
Turns(out) == SelectSeq(out, LAMBDA line : line.kind \in TurnKinds)
Extracted == lastCall.fn = "extractChatMessage"
\* the body is a JSON object whose content is an array of objects
IsResponse(bodyStr) ==
    /\ bodyStr.json /\ bodyStr.data.t = "object"
    /\ bodyStr.data.content.t = "array"
    /\ \A i \in 1..Len(bodyStr.data.content.a) : bodyStr.data.content.a[i].t = "object"
\* the texts of the items of type text, one after the other
RECURSIVE TextsInOrder(_)
TextsInOrder(items) ==
    IF items = <<>> THEN <<>>
    ELSE LET item == items[Len(items)]
         IN  TextsInOrder(SubSeq(items, 1, Len(items) - 1))
             \o (IF item.type = "text" /\ item.text.t = "string" THEN item.text.s ELSE <<>>)

\* C23: a response with a content array gives exactly one assistant turn that
\* carries the texts of its text items joined in array order when that text
\* is non-empty after trimming, and no turn otherwise.
C23_ResponseTurn ==
    (Extracted /\ lastCall.role = "assistant" /\ IsResponse(lastCall.bodyStr))
        => LET text == TextsInOrder(lastCall.bodyStr.data.content.a)
           IN  IF trim(text) # <<>>
               THEN Turns(lastCall.out) = <<Line("assistant", text)>>
               ELSE Turns(lastCall.out) = <<>>

\* two text items were joined into one assistant turn
C23_Witness ==
    /\ Extracted /\ lastCall.role = "assistant" /\ IsResponse(lastCall.bodyStr)
    /\ Len(lastCall.bodyStr.data.content.a) = 2
    /\ \A i \in 1..2 : /\ lastCall.bodyStr.data.content.a[i].type = "text"
                        /\ lastCall.bodyStr.data.content.a[i].text.t = "string"
    /\ lastCall.bodyStr.data.content.a[1].text.s = <<72, 101, 108>>
    /\ lastCall.bodyStr.data.content.a[2].text.s = <<81>>
    /\ Turns(lastCall.out) = <<Line("assistant", <<72, 101, 108, 81>>)>>

\* the request is one user message whose content is a string
IsStringRequest(bodyStr) ==
    /\ bodyStr.json /\ bodyStr.data.t = "object"
    /\ bodyStr.data.messages.t = "array"
    /\ Len(bodyStr.data.messages.a) = 1
    /\ bodyStr.data.messages.a[1].t = "object"
    /\ bodyStr.data.messages.a[1].role = "user"
    /\ bodyStr.data.messages.a[1].content.t = "string"

\* C24: a user message whose content is the string
\* '<system-reminder>R</system-reminder>Q' gives a system-directive turn R and
\* then a user turn Q; every wrapper in a user message gives one
\* system-directive turn, and the non-empty text after the last wrapper one
\* user turn after them.
C24_ReminderInStringContent ==
    (/\ Extracted /\ lastCall.role = "user" /\ IsStringRequest(lastCall.bodyStr)
     /\ includes(lastCall.bodyStr.data.messages.a[1].content.s, OpenTag))
        => Turns(lastCall.out) = ReminderOut(lastCall.bodyStr.data.messages.a[1].content.s)

\* the payload has a shape the extraction does not expect: it is not JSON, or
\* a message or content item is null or not an object, or a tool result
\* carries something other than a string
BadItem(item) ==
    \/ item.t # "object"
    \/ item.type = "tool_result" /\ item.content.t \notin {"string", "undefined"}
BadMessage(message) ==
    \/ message.t # "object"
    \/ /\ message.content.t = "array"
       /\ \E i \in 1..Len(message.content.a) : BadItem(message.content.a[i])
UnexpectedShape(bodyStr, role) ==
    \/ ~bodyStr.json
    \/ bodyStr.data.t # "object"
    \/ /\ role = "user" /\ bodyStr.data.messages.t = "array"
       /\ \E i \in 1..Len(bodyStr.data.messages.a) : BadMessage(bodyStr.data.messages.a[i])
    \/ /\ role = "assistant" /\ bodyStr.data.content.t = "array"
       /\ \E i \in 1..Len(bodyStr.data.content.a) : BadItem(bodyStr.data.content.a[i])

\* C25: a payload that is malformed or has an unexpected shape anywhere gives
\* no conversation turn at all, and the extraction returns to its caller.
C25_NoTurnOnUnexpectedShape ==
    (Extracted /\ UnexpectedShape(lastCall.bodyStr, lastCall.role))
        => lastCall.returned /\ Turns(lastCall.out) = <<>>

(* ----------------------- turns of a request ---------------------------- *)
\* the body is a JSON object whose messages are objects
IsRequest(bodyStr) ==
    /\ bodyStr.json /\ bodyStr.data.t = "object"
    /\ bodyStr.data.messages.t = "array"
    /\ \A i \in 1..Len(bodyStr.data.messages.a) : bodyStr.data.messages.a[i].t = "object"
RequestExtracted ==
    Extracted /\ lastCall.role = "user" /\ IsRequest(lastCall.bodyStr) /\ ~lastCall.caught
\* the assistant entries before the last entry
Earlier(messages) ==
    {i \in 1..(Len(messages) - 1) : messages[i].role = "assistant"}
\* all entries carry a string
AllStrings(messages) == \A i \in 1..Len(messages) : messages[i].content.t = "string"
\* the turns of entries that carry a string, one entry after the other
RECURSIVE StringTurns(_, _)
StringTurns(messages, n) ==
    IF n = 0 THEN <<>>
    ELSE StringTurns(messages, n - 1)
         \o (IF messages[n].role = "user"
             THEN <<Line("user", messages[n].content.s)>>
             ELSE IF messages[n].role = "assistant" /\ n < Len(messages)
             THEN <<Line("assistant-previous",
                         IF verbose THEN messages[n].content.s
                         ELSE SubSeq(messages[n].content.s, 1,
                                     Min(100, Len(messages[n].content.s))) \o Ellipsis)>>
             ELSE <<>>)

\* C34: every assistant entry before the last entry of messages gives a
\* historical assistant turn (capped unless verbose), an assistant entry at
\* the last index gives none, and the turns come in the order of the entries.
C34_HistoricalTurns ==
    RequestExtracted =>
        LET messages == lastCall.bodyStr.data.messages.a
        IN  /\ Len(SelectSeq(lastCall.out, LAMBDA line : line.kind = "assistant-previous"))
                  = Cardinality(Earlier(messages))
            /\ AllStrings(messages) =>
                  Turns(lastCall.out) = StringTurns(messages, Len(messages))

\* the request is one user message with one text item that has a text
IsTextItemRequest(bodyStr) ==
    /\ IsRequest(bodyStr)
    /\ Len(bodyStr.data.messages.a) = 1
    /\ bodyStr.data.messages.a[1].role = "user"
    /\ bodyStr.data.messages.a[1].content.t = "array"
    /\ Len(bodyStr.data.messages.a[1].content.a) = 1
    /\ bodyStr.data.messages.a[1].content.a[1].t = "object"
    /\ bodyStr.data.messages.a[1].content.a[1].type = "text"
    /\ bodyStr.data.messages.a[1].content.a[1].text.t = "string"
    /\ bodyStr.data.messages.a[1].content.a[1].text.s # <<>>

\* C35: a text item of a user message with 'Contents of' and a fence (and no
\* system-reminder tag) gives a file turn, and every non-empty text item of
\* a user message gives at least one turn.
C35_NoTextDropped ==
    (Extracted /\ lastCall.role = "user" /\ IsTextItemRequest(lastCall.bodyStr)) =>
        LET text == lastCall.bodyStr.data.messages.a[1].content.a[1].text.s
        IN  /\ Turns(lastCall.out) # <<>>
            /\ (includes(text, ContentsOf) /\ includes(text, Fence)
                   /\ ~includes(text, OpenTag))
                  => \E i \in 1..Len(lastCall.out) : lastCall.out[i].kind = "file"

(* --------------------------- upstream headers -------------------------- *)
Entries(headers) == {headers[i] : i \in 1..Len(headers)}
HostEntries(headers) == {i \in 1..Len(headers) : headers[i][1] = "host"}
OptionsBuilt == lastCall.fn = "handleRequest"

\* C26: the upstream request has the client's method and path and every
\* header of the client unchanged, except Host, which is
\* '<remoteHost>:<remotePort>' whatever the client sent; there is one Host.
C26_HeadersForwarded ==
    OptionsBuilt =>
        /\ lastCall.options.method = lastCall.request.method
        /\ lastCall.options.path = lastCall.request.url
        /\ {entry \in Entries(lastCall.options.headers) : entry[1] # "host"}
              = {entry \in Entries(lastCall.request.headers) : entry[1] # "host"}
        /\ Len(lastCall.options.headers)
              = Cardinality({entry \in Entries(lastCall.request.headers) : entry[1] # "host"}) + 1
        /\ Cardinality(HostEntries(lastCall.options.headers)) = 1
        /\ \A i \in HostEntries(lastCall.options.headers) :
              lastCall.options.headers[i][2]
                  = lastCall.remoteHost \o ":" \o ToString(lastCall.remotePort)

\* the client named the proxy as Host and sent an API key; the upstream
\* request names the upstream and keeps the key
C26_Witness ==
    /\ OptionsBuilt
    /\ Entry("host", "localhost:3000") \in Entries(lastCall.request.headers)
    /\ Entry("x-api-key", "sk-1") \in Entries(lastCall.options.headers)
    /\ Entry("host", "api.anthropic.com:443") \in Entries(lastCall.options.headers)
    /\ Entry("host", "localhost:3000") \notin Entries(lastCall.options.headers)

(* ------------------------ accumulation and hand-over ------------------- *)
\* C27: a chunk is appended to the accumulated buffer exactly when logBody or
\* chatMode is set: with inspection the buffers hold every chunk read, and
\* without it they stay empty and body-processing is never called.
C27_AccumulateIffInspect ==
    \A e \in Exchanges :
        /\ Inspect => /\ requestBody[e] = reqRead[e]
                      /\ responseBody[e] = proxyResRead[e]
        /\ ~Inspect => /\ requestBody[e] = <<>> /\ responseBody[e] = <<>>
                       /\ reqLogged[e] = <<>> /\ resLogged[e] = <<>>
                       /\ display[e] = <<>>
                       /\ running = Idle

\* chat mode alone: both bodies of an exchange were accumulated chunk by
\* chunk and handed to body-processing
C27_Witness ==
    /\ chatMode /\ ~logBody
    /\ Len(reqRead[1]) = MaxChunks /\ requestBody[1] = reqRead[1]
    /\ Len(proxyResRead[1]) = MaxChunks /\ responseBody[1] = proxyResRead[1]
    /\ reqLogged[1] # <<>> /\ resLogged[1] # <<>>

\* C28: in each direction body-processing runs at most once per exchange, at
\* end-of-body, on a non-empty buffer, and before the close that follows it
\* (proxyReq.end() for the request, res.end() for the response); with an
\* empty buffer the close still happens.
C28_ProcessOnceBeforeClose ==
    [][\A e \in Exchanges :
          /\ reqLogged'[e] # reqLogged[e] =>
                /\ reqLogged[e] = <<>>
                /\ reqLogged'[e] = <<requestBody[e]>>
                /\ requestBody[e] # <<>>
                /\ req[e] = "ended"
                /\ proxyReq[e] = "open" /\ proxyReq'[e] = "ended"
          /\ resLogged'[e] # resLogged[e] =>
                /\ resLogged[e] = <<>>
                /\ resLogged'[e] = <<responseBody[e]>>
                /\ responseBody[e] # <<>>
                /\ upstream[e] = "complete"
                /\ ~WritableEnded(resOut[e]) /\ WritableEnded(resOut'[e])
          /\ (proxyReq[e] = "open" /\ proxyReq'[e] = "ended") =>
                \/ reqLogged'[e] = <<requestBody[e]>>
                \/ reqLogged'[e] = <<>> /\ (requestBody[e] = <<>> \/ ~Inspect)
          /\ (req[e] = "open" /\ req'[e] = "ended" /\ requestBody[e] = <<>>) =>
                proxyReq'[e] = "ended"
          /\ (upstream[e] = "responding" /\ upstream'[e] = "complete"
                 /\ responseBody[e] = <<>>) =>
                WritableEnded(resOut'[e])
      ]_vars

\* one exchange had both bodies processed once and then closed; the other
\* ended an empty request body, which was closed without processing
C28_Witness ==
    /\ Inspect
    /\ reqLogged[1] = <<requestBody[1]>> /\ proxyReq[1] = "ended"
    /\ resLogged[1] = <<responseBody[1]>> /\ WritableEnded(resOut[1])
    /\ req[2] = "ended" /\ reqRead[2] = <<>>
    /\ proxyReq[2] = "ended" /\ reqLogged[2] = <<>>

(* ------------------------------ SSE frames ----------------------------- *)
Parsed == lastCall.fn = "parseSseEvents"
\* what a line of the input is, and the value it carries
IsBlank(line) == trim(line) = <<>>
FieldOf(line) ==
    IF HasAt(trim(line), EventPrefix, 1) THEN "event"
    ELSE IF HasAt(trim(line), DataPrefix, 1) THEN "data"
    ELSE IF HasAt(trim(line), IdPrefix, 1) THEN "id"
    ELSE "none"
ValueOf(line) ==
    LET text == trim(line)
        colon == CHOOSE i \in 1..Len(text) : text[i] = 58 /\ \A j \in 1..(i - 1) : text[j] # 58
    IN  trim(SubSeq(text, colon + 1, Len(text)))
\* the lines of the input that set a field
FieldLines(lines) == {i \in 1..Len(lines) : ~IsBlank(lines[i]) /\ FieldOf(lines[i]) # "none"}
BlankBetween(lines, i, j) == \E k \in (i + 1)..(j - 1) : IsBlank(lines[k])
\* the field lines that open a frame: no earlier field line without a blank
\* line in between
FrameStarts(lines) ==
    {i \in FieldLines(lines) :
        \A j \in FieldLines(lines) : j < i => BlankBetween(lines, j, i)}
Nth(S, n) == CHOOSE i \in S : Cardinality({j \in S : j <= i}) = n
\* the field lines of the frame opened at line s
FrameLines(lines, s) ==
    {i \in FieldLines(lines) : i >= s /\ ~BlankBetween(lines, s, i)}
\* the values of the lines of a set that carry the field, in line order
RECURSIVE ValuesOf(_, _, _)
ValuesOf(lines, S, field) ==
    IF S = {} THEN <<>>
    ELSE LET last == CHOOSE i \in S : \A j \in S : j <= i
         IN  ValuesOf(lines, S \ {last}, field)
             \o (IF FieldOf(lines[last]) = field THEN <<ValueOf(lines[last])>> ELSE <<>>)

\* C29: parseSseEvents emits one event for every blank line or end of input
\* reached while the pending frame has a field: as many events as there are
\* runs of field lines between blank lines, each with at least one field;
\* blank lines in a row and unrecognised lines add no event, and a frame
\* without a closing blank line is emitted once.
C29_FrameEmission ==
    Parsed =>
        /\ Len(lastCall.events) = Cardinality(FrameStarts(lastCall.lines))
        /\ \A n \in 1..Len(lastCall.events) : lastCall.events[n].keys # {}

\* two frames, the first closed by two blank lines, the second by the end of
\* the input
C29_Witness ==
    /\ Parsed
    /\ Len(lastCall.lines) = 4
    /\ FieldOf(lastCall.lines[1]) = "data"
    /\ lastCall.lines[2] = <<>> /\ lastCall.lines[3] = <<32>>
    /\ FieldOf(lastCall.lines[4]) = "id"
    /\ Len(lastCall.events) = 2

\* C30: the data of a frame is the concatenation of the values of its data:
\* lines in order, its event and id are the values of its last event: and
\* id: line, and it has no field that its own lines did not set.
C30_FrameFields ==
    Parsed =>
        \A n \in 1..Len(lastCall.events) :
            n <= Cardinality(FrameStarts(lastCall.lines)) =>
                LET frame == FrameLines(lastCall.lines, Nth(FrameStarts(lastCall.lines), n))
                    datas == ValuesOf(lastCall.lines, frame, "data")
                    names == ValuesOf(lastCall.lines, frame, "event")
                    ids == ValuesOf(lastCall.lines, frame, "id")
                IN  /\ lastCall.events[n].keys = {FieldOf(lastCall.lines[i]) : i \in frame}
                    /\ lastCall.events[n].data = join(datas, <<>>)
                    /\ lastCall.events[n].event =
                          (IF names = <<>> THEN <<>> ELSE names[Len(names)])
                    /\ lastCall.events[n].id = (IF ids = <<>> THEN <<>> ELSE ids[Len(ids)])

\* a frame with two data lines and two event lines, then a frame with an id
C30_Witness ==
    /\ Parsed
    /\ Len(lastCall.events) = 1
    /\ lastCall.lines = <<DataPrefix \o <<97>>, EventPrefix \o <<97>>,
                          <<32>> \o DataPrefix \o <<32, 98>>, EventPrefix \o <<32, 98, 13>>>>
    /\ lastCall.events[1].data = <<97, 98>>
    /\ lastCall.events[1].event = <<98>>
    /\ lastCall.events[1].keys = {"data", "event"}

(* --------------------------- SSE deliveries ---------------------------- *)
ParsedTwice == lastCall.fn = "parseSseEvents twice"
\* the text ends with a blank line: a newline, white space other than a
\* newline if any, and a newline
EndsOnBoundary(text) ==
    /\ Len(text) >= 1
    /\ text[Len(text)] = 10
    /\ LET before == SubSeq(text, 1, Len(text) - 1)
           spaces == {i \in 1..Len(before) :
                        \A k \in i..Len(before) : before[k] \in WhiteSpace \ {10}}
           rest == SubSeq(before, 1, Len(before) - Cardinality(spaces))
       IN  rest = <<>> \/ rest[Len(rest)] = 10

\* C31: for deliveries D1 and D2 where D1 ends on a blank line, parsing
\* D1 ++ D2 gives the events of D1 followed by the events of D2.
C31_ParseSplitsAtBoundary ==
    (ParsedTwice /\ EndsOnBoundary(lastCall.first))
        => lastCall.events = lastCall.firstEvents \o lastCall.secondEvents

\* a frame closed by a blank line in the first delivery and a data line
\* opening the second: one event each, two for the whole text
C31_Witness ==
    /\ ParsedTwice /\ EndsOnBoundary(lastCall.first)
    /\ Len(lastCall.firstEvents) = 1 /\ lastCall.firstEvents[1].data = <<97>>
    /\ Len(lastCall.secondEvents) = 1 /\ lastCall.secondEvents[1].data = <<98>>
    /\ Len(lastCall.events) = 2

(* -------------------------- binary test and cap ------------------------ *)
\* the decoded buffer of the call is the content of its body: the body is
\* plain and has no encoding to undo, or is compressed as its header says
DecodesToContent ==
    /\ lastCodec.fn # ""
    /\ \/ CompressedAs(lastCodec.body, lastCodec.contentEncoding)
       \/ lastCodec.contentEncoding = "" /\ lastCodec.body.coding = "plain"

\* C32: a buffer is classified as binary exactly when one of its bytes at an
\* index below min(512, length) is zero, and the test looks at the decoded
\* buffer: index 511 counts, index 512 does not, the empty buffer is text.
C32_BinaryIffEarlyZero ==
    DecodesToContent =>
        LET decoded == lastCodec.body.content
            earlyZero == \E i \in 0..511 : i < Len(decoded) /\ decoded[i + 1] = 0
        IN  /\ (lastCodec.formatted.kind = "binary") = earlyZero
            /\ earlyZero => lastCodec.full = <<>>
            /\ (~earlyZero /\ decoded # <<>>) => lastCodec.full # <<>>

\* a gzip body whose decoded buffer has its only zero byte at index 511
C32_Witness ==
    /\ DecodesToContent
    /\ lastCodec.body.coding = "gzip"
    /\ Len(lastCodec.body.content) = 513
    /\ lastCodec.body.content[512] = 0
    /\ lastCodec.formatted.kind = "binary"

\* C33: formatBody returns the decoded text, pretty-printed when it is JSON,
\* whole and without marker when it has 1000 characters or fewer, and cut to
\* its first 1000 characters followed by the marker when it is longer.
C33_CappedAtMaxLength ==
    (DecodesToContent /\ lastCodec.formatted.kind = "text") =>
        LET decoded == toString(lastCodec.body.content)
            printed == IF isJsonContent(decoded) THEN Pretty(decoded) ELSE decoded
        IN  /\ Len(printed) <= 1000 => lastCodec.formatted.text = printed
            /\ Len(printed) > 1000 =>
                  /\ Len(lastCodec.formatted.text) = 1000 + Len(TruncatedMark)
                  /\ SubSeq(lastCodec.formatted.text, 1, 1000) = SubSeq(printed, 1, 1000)
                  /\ SubSeq(lastCodec.formatted.text, 1001, Len(lastCodec.formatted.text))
                        = TruncatedMark

\* a text of 1001 characters came back as 1000 characters and the marker
C33_Witness ==
    /\ DecodesToContent
    /\ Len(lastCodec.body.content) = 1001
    /\ lastCodec.formatted.kind = "text"
    /\ Len(lastCodec.formatted.text) = 1000 + Len(TruncatedMark)

(* ------------------------- reassembly state ---------------------------- *)
\* C36: in every state, every entry of sseMessages has as mergedContent the
\* texts of the content_block_delta events of its events list, concatenated
\* in list order, an event with unparsable data or no text counting as the
\* empty text.
C36_MergedMatchesEvents ==
    \A id \in RequestIds :
        sseMessages[id].has =>
            sseMessages[id].mergedContent = DeltaTextsOf(sseMessages[id].events)

\* an entry built by two feeds, each bringing text, with a delta that cannot
\* be read and an event that is no delta among the stored events
C36_Witness ==
    /\ lastFeed.calls = 2
    /\ FedBefore.has /\ FedBefore.mergedContent # <<>>
    /\ sseMessages[lastFeed.id].has
    /\ sseMessages[lastFeed.id].mergedContent # FedBefore.mergedContent
    /\ \E i \in 1..Len(sseMessages[lastFeed.id].events) :
          sseMessages[lastFeed.id].events[i] = SseEvent("content_block_delta", MalformedData)
    /\ \E i \in 1..Len(sseMessages[lastFeed.id].events) :
          sseMessages[lastFeed.id].events[i].event = "message_delta"

(* ------------------- feeding the reassembler --------------------------- *)
\* what the step adds to the console output of an exchange
Added(e) == SubSeq(display'[e], Len(display[e]) + 1, Len(display'[e]))
\* the lines processSseStream prints
StreamKinds == {"prefix", "started", "delta", "message"}
\* processSseStream ran in this step: it creates, extends or deletes an
\* entry of the map, or starts a message
Fed ==
    \/ sseMessages' # sseMessages
    \/ \E e \in Exchanges : \E i \in 1..Len(Added(e)) : Added(e)[i].kind \in StreamKinds
\* logResponseBody ran for the exchange in this step
LoggedResponse(e) == resLogged'[e] # resLogged[e]

\* C37: the reassembler runs at most once per exchange, in the step that
\* follows the end of the upstream response, on the whole accumulated
\* response body as one delivery; no chunk is read in that step and none
\* can come after it.
C37_FedOnceAtEnd ==
    [][Fed =>
          \E e \in Exchanges :
              /\ running = [ex |-> e, dir |-> "res"]
              /\ upstream[e] = "complete"
              /\ resLogged[e] = <<>>
              /\ resLogged'[e] = <<proxyResRead[e]>>
              /\ proxyResRead' = proxyResRead
              /\ \A d \in Exchanges \ {e} : Added(d) = <<>>
              /\ ~chatMode =>
                    \E i \in 1..Len(Added(e)) :
                        Added(e)[i] = Shown("delta", requestId[e], proxyResRead[e])
      ]_vars

\* an event stream of two chunks went through the reassembler when it had
\* ended: the message shown holds both chunks
C37_Witness ==
    \E e \in Exchanges :
        /\ Len(proxyResRead[e]) = 2
        /\ resLogged[e] = <<proxyResRead[e]>>
        /\ \E i \in 1..Len(display[e]) :
              display[e][i] = Shown("message", requestId[e], proxyResRead[e])

\* the media type of the response is an event stream, with or without parameters
IsStream(e) == contentType[e] \in {"text/event-stream", "text/event-stream; charset=utf-8"}

Heads(out) == {i \in 1..Len(out) : out[i].kind = "head"}
Ends(out) == {i \in 1..Len(out) : out[i].kind = "end"}
\* handleResponse ran for the exchange in this step
ResponseCallback(e) ==
    /\ IdUse("handleResponse", requestId[e]) \notin idUses[e]
    /\ IdUse("handleResponse", requestId[e]) \in idUses'[e]
\* proxyRes.on('data') ran for the exchange in this step
DataCallback(e) == proxyResRead'[e] # proxyResRead[e]

\* C38: whatever the order of the upstream 'response', 'data', 'end' and
\* 'error' callbacks, the client response gets its status line at most once
\* and is ended at most once, and after its end nothing is written to it: no
\* chunk and no second status line.
C38_ResponseWrittenOnce ==
    [][\A e \in Exchanges :
          /\ Cardinality(Heads(resOut'[e])) <= 1
          /\ Cardinality(Ends(resOut'[e])) <= 1
          /\ \A i \in Ends(resOut'[e]) : i = Len(resOut'[e])
          /\ ResponseCallback(e) => ~HeadersSent(resOut[e])
          /\ DataCallback(e) => ~WritableEnded(resOut[e])
      ]_vars
\* two exchanges are over: one whose upstream answered and then broke while
\* the body was coming, both error listeners having run, and one whose
\* upstream broke before it answered
C38_Witness ==
    \E e \in Exchanges, d \in Exchanges :
        /\ upstreamError[e] = "afterHeaders" /\ upstream[e] = "failed"
        /\ ~reqErrorQueued[e] /\ ~resErrorQueued[e]
        /\ ChunksOf(resOut[e]) # <<>>
        /\ WritableEnded(resOut[e])
        /\ upstreamError[d] = "beforeHeaders" /\ ~reqErrorQueued[d]
        /\ WritableEnded(resOut[d])

=============================================================================
